---- MODULE Spec2Model ----
(***************************************************************************)
(* Model of the markdown viewer content script: the render pipeline that   *)
(* registers deferred tasks and placeholders (remarkHtmlToPng,             *)
(* remarkMermaidToPng, processSvgImages), the side fetches that flip a     *)
(* task's status, and the scheduler processAsyncTasks that drains the      *)
(* global asyncTaskQueue into the live document.                           *)
(***************************************************************************)
EXTENDS Integers, Sequences, FiniteSets, Bags, TLC

(* ---------------------------------------------------------------------- *)
(* Bounds                                                                  *)
(* ---------------------------------------------------------------------- *)

\* Largest number of expensive items (diagram, HTML block, vector image) in a document.
MaxItems == 2

(* ---------------------------------------------------------------------- *)
(* Inputs                                                                  *)
(* ---------------------------------------------------------------------- *)

\* The kinds of expensive item a document can hold:
\*   mermaid     ```mermaid code block
\*   html        raw html node
\*   svgRemote   <img src="http(s)://....svg">
\*   svgLocal    <img src="relative/or/file.svg">
\*   svgData     <img src="data:image/svg+xml;base64,....svg">
\*   svgDataBad  <img src="data:...svg"> in a format the two regexes do not match
ItemKinds == {"mermaid", "html", "svgRemote", "svgLocal", "svgData", "svgDataBad"}

SvgKinds == {"svgRemote", "svgLocal", "svgData", "svgDataBad"}

RECURSIVE SeqsUpTo(_, _)
SeqsUpTo(S, n) ==
  IF n = 0 THEN {<<>>}
  ELSE LET shorter == SeqsUpTo(S, n - 1)
       IN  shorter \cup {Append(s, x) : s \in {t \in shorter : Len(t) = n - 1}, x \in S}

Documents == SeqsUpTo(ItemKinds, MaxItems)

\* What a rasterization backend call can do.  "badReject" is a rejection whose
\* value has no usable message, so that the callback's own catch block throws
\* while it formats the report (escapeHtml(error.message)).
RenderOutcomes == {"ok", "invalid", "fail", "badReject"}

VARIABLES
  items,              \* the document: sequence of item kinds, in document order
  renderPc,           \* position of renderMarkdown
  markup,             \* per document position: 0 = original node, n > 0 = placeholder with id n
  contentDiv,         \* the live rendering area
  asyncTaskQueue,     \* the global queue: sequence of task ids
  asyncTaskIdCounter, \* the global id counter
  tasks,              \* every task object ever created, indexed by id
  fetchSt,            \* per task id: state of the retrieval promise chain
  pc,                 \* position of processAsyncTasks
  task,               \* the task spliced out and being processed (0 = none)
  totalTasks,         \* processAsyncTasks local
  completedTasks,     \* processAsyncTasks local
  indicator,          \* processing indicator: "hidden" or "shown"
  progress,           \* the last updateProgress(completed, total) computation
  removed,            \* history: bag of the ids spliced out of the queue
  callbackRuns,       \* history: bag of the ids whose callback was invoked
  reports,            \* history: bag of the ids the scheduler wrote an error report for
  rendererCalls,      \* history: bag of the ids whose callback called a rasterization backend
  rejected,           \* history: bag of the ids whose callback threw or rejected
  htmlValue,          \* node.value of the raw html node under study, parsed: a sequence of nodes
  sanPc,              \* position of the study of that node: "off", "raw", "visited", "rendered"
  taskData,           \* per task id: data.code of an HTML-block task (<<>> for other tasks)
  rendered,           \* the markup renderMarkdown assigns to contentDiv.innerHTML for that node
  baseURI,            \* protocol of document.baseURI
  sanitizerPasses,    \* history: number of calls of sanitizeRenderedHtml so far
  insertedSince,      \* history: placeholders replaced since the last sanitizer pass
  cachePending,       \* the cache proxy call awaiting its message or digest (NoCall = none)
  cacheLog,           \* history: the settled message calls of the cache proxies, in order
  keyLog,             \* history: the settled generateKey calls, in order
  token,              \* print page: the token of the page's address ("null" = none)
  hasRoot,            \* print page: whether the print-root element exists
  printPc,            \* print page: position of requestAndRender
  cleanedUp,          \* print page: the cleanedUp flag
  fallbackTimer,      \* print page: "null", "pending" (armed), "fired"
  printTimer,         \* print page: whether the deferred window.print() is pending
  printCalls,         \* print page history: number of calls of window.print()
  dialog,             \* print page: the print dialog, "none", "open", "closed"
  completeMsgs,       \* print page history: reasons of the PRINT_JOB_COMPLETE messages sent
  finishPc,           \* print page: position of finishPrint past its guard
  windowClosed,       \* print page: whether the page is gone
  totalLength,        \* print page: payload.length of the job
  offset,             \* print page: offset of the chunk loop
  chunkRequests,      \* print page history: the offsets requested, in order
  chunks,             \* print page: number of chunks collected
  images,             \* print page: images of the job that have not settled
  rootContent,        \* print page: "empty" or "job"
  jobImages,          \* print page: images of the job that were not complete when rendered
  errorMessage,       \* print page: text of the error element ("" = hidden)
  zoomPc,             \* viewer page: "unloaded", "built" (page laid out), "ready" (toolbar set up)
  zoomLevel,          \* viewer page: the zoomLevel of the toolbar, in percent
  styleZoom,          \* viewer page: contentDiv.style.zoom, in percent
  currentLayout,      \* viewer page: the layout mode
  wideAvailable,      \* viewer page: window.innerWidth > WIDE_LAYOUT_THRESHOLD
  savedZoom,          \* file state: the zoom last saved (0 = none)
  savedLayoutMode,    \* file state: the layout mode last saved ("" = none)
  messages,           \* Localization: the locale whose messages are loaded ("null" = none)
  ready,              \* Localization: the ready flag
  locale,             \* Localization: the locale field
  loadingPromise,     \* Localization: 0 = null, n > 0 = the n-th promise created by init
  initPc,             \* Localization: position of the body of init
  loads,              \* Localization: the loadLocale calls made, each with its caller's position
  storageReads,       \* Localization history: number of getStorageSettings calls
  initReturns,        \* Localization history: the promise each init call returned
  markdownHistory,    \* chrome.storage.local: the stored history, a sequence of URLs
  saves,              \* the saveToHistory calls made, each with its position
  downloadDisabled,   \* viewer page: downloadBtn.disabled
  exportsInFlight,    \* viewer page history: exportToDocx calls that have not settled
  exportProgress,     \* viewer page: the progress the download button shows
  exportLog           \* viewer page history: how each export settled, in order

vars == <<items, renderPc, markup, contentDiv, asyncTaskQueue, asyncTaskIdCounter,
          tasks, fetchSt, pc, task, totalTasks, completedTasks, indicator,
          progress, removed, callbackRuns, reports, rendererCalls, rejected,
          htmlValue, sanPc, taskData, rendered, baseURI,
          sanitizerPasses, insertedSince, cachePending, cacheLog, keyLog,
          token, hasRoot, printPc, cleanedUp, fallbackTimer, printTimer, printCalls,
          dialog, completeMsgs, finishPc, windowClosed, totalLength, offset,
          chunkRequests, chunks, images, rootContent, jobImages, errorMessage,
          zoomPc, zoomLevel, styleZoom, currentLayout, wideAvailable, savedZoom,
          savedLayoutMode,
          messages, ready, locale, loadingPromise, initPc, loads, storageReads,
          initReturns, markdownHistory, saves,
          downloadDisabled, exportsInFlight, exportProgress, exportLog>>

sanVars == <<htmlValue, sanPc, taskData, rendered, baseURI>>
passVars == <<sanitizerPasses, insertedSince>>
cacheVars == <<cachePending, cacheLog, keyLog>>
printVars == <<token, hasRoot, printPc, cleanedUp, fallbackTimer, printTimer, printCalls,
               dialog, completeMsgs, finishPc, windowClosed, totalLength, offset,
               chunkRequests, chunks, images, rootContent, jobImages, errorMessage>>
zoomVars == <<zoomPc, zoomLevel, styleZoom, currentLayout, wideAvailable, savedZoom,
              savedLayoutMode>>

\* The variables of the other pages and objects of the extension, which the
\* render pipeline and the scheduler never touch.
locVars == <<messages, ready, locale, loadingPromise, initPc, loads, storageReads,
             initReturns>>
storeVars == <<markdownHistory, saves>>
docxVars == <<downloadDisabled, exportsInFlight, exportProgress, exportLog>>
pageVars == <<locVars, storeVars, docxVars>>

sideVars == <<cacheVars, printVars, zoomVars, pageVars>>

\* No cache proxy call is pending.
NoCall == [op |-> "none", content |-> <<>>, type |-> ""]

\* No cache proxy has been called.
CacheIdle ==
  /\ cachePending = NoCall
  /\ cacheLog = <<>>
  /\ keyLog = <<>>

\* The print page when its script is loaded.
PrintStart ==
  /\ printPc = "start"
  /\ cleanedUp = FALSE
  /\ fallbackTimer = "null"
  /\ printTimer = FALSE
  /\ printCalls = 0
  /\ dialog = "none"
  /\ completeMsgs = <<>>
  /\ finishPc = "idle"
  /\ windowClosed = FALSE
  /\ totalLength = 0
  /\ offset = 0
  /\ chunkRequests = <<>>
  /\ chunks = 0
  /\ images = 0
  /\ rootContent = "empty"
  /\ jobImages = 0
  /\ errorMessage = ""

\* No print page is open.
PrintIdle == PrintStart /\ token = "t" /\ hasRoot = TRUE

\* The viewer page before it is laid out, with no file state saved.
ZoomIdle ==
  /\ zoomPc = "unloaded"
  /\ zoomLevel = 100
  /\ styleZoom = 100
  /\ currentLayout = "normal"
  /\ wideAvailable = FALSE
  /\ savedZoom = 0
  /\ savedLayoutMode = ""

\* The Localization object as constructed.
LocIdle ==
  /\ messages = "null"
  /\ ready = FALSE
  /\ locale = "auto"
  /\ loadingPromise = 0
  /\ initPc = "idle"
  /\ loads = <<>>
  /\ storageReads = 0
  /\ initReturns = <<>>

\* No history stored and no save under way.
StoreIdle ==
  /\ markdownHistory = <<>>
  /\ saves = <<>>

\* The download button as laid out, no export made.
DocxIdle ==
  /\ downloadDisabled = FALSE
  /\ exportsInFlight = 0
  /\ exportProgress = 0
  /\ exportLog = <<>>

\* The other pages and objects at rest.
SideIdle == CacheIdle /\ PrintIdle /\ ZoomIdle /\ LocIdle /\ StoreIdle /\ DocxIdle

renderVars == <<items, renderPc, markup, contentDiv>>
registryVars == <<asyncTaskQueue, asyncTaskIdCounter>>
schedVars == <<pc, task, totalTasks, completedTasks, indicator, progress>>
histVars == <<removed, callbackRuns, reports, rendererCalls, rejected>>

Range(s) == {s[i] : i \in 1..Len(s)}

\* Record one more occurrence of x in the history bag B.
Count(B, x) == B (+) SetToBag({x})

\* Position of an id in a sequence of distinct ids, 0 when absent.
IndexOf(s, x) == IF x \in Range(s) THEN CHOOSE i \in 1..Len(s) : s[i] = x ELSE 0

NoDuplicates(s) == \A i, j \in 1..Len(s) : s[i] = s[j] => i = j

(* ---------------------------------------------------------------------- *)
(* Task registration                                                       *)
(* ---------------------------------------------------------------------- *)

\* A registry is the pair of globals plus the task objects:
\*   [queue, counter, tasks].

\* Variant of generateAsyncId that reads the counter without advancing it.
generateAsyncIdStuck(counter) == counter

\* generateAsyncId: pre-increments the counter and returns it.
generateAsyncId(counter) == counter + 1

\* asyncTask(callback, data, type, description, initialStatus):
\* creates the task object and pushes it on the queue.
asyncTask(R, type, kind, pos, svgContent, initialStatus) ==
  LET placeholderId == generateAsyncId(R.counter)
      t == [id |-> placeholderId, type |-> type, kind |-> kind, pos |-> pos,
            svgContent |-> svgContent, status |-> initialStatus, error |-> "null"]
  IN  [queue |-> Append(R.queue, placeholderId),
       counter |-> placeholderId,
       tasks |-> Append(R.tasks, t)]

\* task.setReady
setReady(t) == [t EXCEPT !.status = "ready"]

\* Variant of setError that records the error but leaves the status alone.
setErrorKeepsStatus(t, error) == [t EXCEPT !.error = error]

\* task.setError(error)
setError(t, error) == [t EXCEPT !.status = "error", !.error = error]

(* ---------------------------------------------------------------------- *)
(* Extraction: the two remark plugins and processSvgImages                 *)
(* ---------------------------------------------------------------------- *)

\* visit(tree, type, visitor): document-order walk from position i that registers
\* one ready task per node of the given kind and replaces the node by its
\* placeholder (parent.children[index] = result.placeholder).
RECURSIVE visit(_, _, _, _, _)
visit(doc, kind, X, i, type) ==
  IF i > Len(doc) THEN X
  ELSE IF doc[i] = kind
       THEN LET R2 == asyncTask(X.R, type, kind, i, "n/a", "ready")
            IN  visit(doc, kind, [R |-> R2, M |-> [X.M EXCEPT ![i] = R2.counter]], i + 1, type)
       ELSE visit(doc, kind, X, i + 1, type)

\* Variant of initialStatus that creates every image task fetching.
initialStatusAlwaysFetching(kind) == "fetching"

\* Determine initial status: data: URLs are ready, everything else needs fetching.
initialStatus(kind) == IF kind \in {"svgData", "svgDataBad"} THEN "ready" ELSE "fetching"

\* For data: URLs the SVG content is parsed immediately; an unsupported format leaves null.
initialSvgContent(kind) == IF kind = "svgData" THEN "content" ELSE "null"

\* Variant of svgLoop that takes the matches first to last: step i handles
\* the position Len(doc) - i + 1.
RECURSIVE svgLoopForward(_, _, _)
svgLoopForward(doc, X, i) ==
  IF i < 1 THEN X
  ELSE LET p == Len(doc) - i + 1
       IN  IF doc[p] \in SvgKinds
             THEN LET R2 == asyncTask(X.R, "svg", doc[p], p, initialSvgContent(doc[p]),
                                      initialStatus(doc[p]))
                  IN  svgLoopForward(doc, [R |-> R2, M |-> [X.M EXCEPT ![p] = R2.counter]], i - 1)
             ELSE svgLoopForward(doc, X, i - 1)

\* The loop of processSvgImages: for (i = matches.length - 1; i >= 0; i--),
\* here walking the document positions downwards.
RECURSIVE svgLoop(_, _, _)
svgLoop(doc, X, i) ==
  IF i < 1 THEN X
  ELSE IF doc[i] \in SvgKinds
       THEN LET R2 == asyncTask(X.R, "svg", doc[i], i, initialSvgContent(doc[i]),
                                initialStatus(doc[i]))
            IN  svgLoop(doc, [R |-> R2, M |-> [X.M EXCEPT ![i] = R2.counter]], i - 1)
       ELSE svgLoop(doc, X, i - 1)

\* The retrieval started at registration: a promise chain for fetching tasks only.
startFetch(t) == IF t.status = "fetching" THEN "pending" ELSE "none"

Registry == [queue |-> asyncTaskQueue, counter |-> asyncTaskIdCounter, tasks |-> tasks]

\* Install the result of an extraction step in the globals.
Registered(X) ==
  /\ asyncTaskQueue' = X.R.queue
  /\ asyncTaskIdCounter' = X.R.counter
  /\ tasks' = X.R.tasks
  /\ markup' = X.M
  /\ fetchSt' = [n \in 1..Len(X.R.tasks) |->
                   IF n <= Len(fetchSt) THEN fetchSt[n] ELSE startFetch(X.R.tasks[n])]

(* ---------------------------------------------------------------------- *)
(* Initial state                                                           *)
(* ---------------------------------------------------------------------- *)

Init ==
  /\ items \in Documents
  /\ renderPc = "html"
  /\ markup = [i \in 1..Len(items) |-> 0]
  /\ contentDiv = [state |-> "empty", el |-> <<>>]
  /\ asyncTaskQueue = <<>>
  /\ asyncTaskIdCounter = 0
  /\ tasks = <<>>
  /\ fetchSt = <<>>
  /\ pc = "idle"
  /\ task = 0
  /\ totalTasks = 0
  /\ completedTasks = 0
  /\ indicator = "hidden"
  /\ progress = [computed |-> FALSE, completed |-> 0, total |-> 0]
  /\ removed = EmptyBag
  /\ callbackRuns = EmptyBag
  /\ reports = EmptyBag
  /\ rendererCalls = EmptyBag
  /\ rejected = EmptyBag
  /\ sanitizerPasses = 0
  /\ insertedSince = 0
  /\ SideIdle
  /\ htmlValue = <<>>
  /\ sanPc = "off"
  /\ taskData = <<>>
  /\ rendered = <<>>
  /\ baseURI = "file:"

(* ---------------------------------------------------------------------- *)
(* renderMarkdown                                                          *)
(* ---------------------------------------------------------------------- *)

\* .use(remarkHtmlToPng(renderer)): runs first over the whole tree.
RunRemarkHtmlToPng ==
  /\ renderPc = "html"
  /\ Registered(visit(items, "html", [R |-> Registry, M |-> markup], 1, "html"))
  /\ renderPc' = "mermaid"
  /\ UNCHANGED <<items, contentDiv, schedVars, histVars>>
  /\ UNCHANGED sanVars
  /\ sanitizerPasses' = sanitizerPasses + Cardinality({i \in 1..Len(items) : items[i] = "html"})
  /\ UNCHANGED insertedSince
  /\ UNCHANGED sideVars

\* .use(remarkMermaidToPng(renderer)): runs after the HTML plugin.
RunRemarkMermaidToPng ==
  /\ renderPc = "mermaid"
  /\ Registered(visit(items, "mermaid", [R |-> Registry, M |-> markup], 1, "mermaid"))
  /\ renderPc' = "stringify"
  /\ UNCHANGED <<items, contentDiv, schedVars, histVars>>
  /\ UNCHANGED sanVars
  /\ UNCHANGED passVars
  /\ UNCHANGED sideVars

\* await processor.process(...) resolves; htmlContent = await processSvgImages(...).
RunProcessSvgImages ==
  /\ renderPc = "stringify"
  /\ Registered(svgLoop(items, [R |-> Registry, M |-> markup], Len(items)))
  /\ renderPc' = "inject"
  /\ UNCHANGED <<items, contentDiv, schedVars, histVars>>
  /\ UNCHANGED sanVars
  /\ UNCHANGED passVars
  /\ UNCHANGED sideVars

\* Variant of Inject that assigns the markup without the sanitizer pass.
InjectUnsanitized ==
  /\ renderPc = "inject"
  /\ contentDiv' = [state |-> "html",
                    el |-> [i \in 1..Len(items) |->
                              IF markup[i] > 0 THEN "placeholder" ELSE "content"]]
  /\ renderPc' = "toc"
  /\ UNCHANGED <<items, markup, registryVars, tasks, fetchSt, schedVars, histVars>>
  /\ UNCHANGED sanVars
  /\ UNCHANGED passVars
  /\ UNCHANGED sideVars

\* processTablesForWordCompatibility, sanitizeRenderedHtml, contentDiv.innerHTML = htmlContent.
Inject ==
  /\ renderPc = "inject"
  /\ contentDiv' = [state |-> "html",
                    el |-> [i \in 1..Len(items) |->
                              IF markup[i] > 0 THEN "placeholder" ELSE "content"]]
  /\ renderPc' = "toc"
  /\ UNCHANGED <<items, markup, registryVars, tasks, fetchSt, schedVars, histVars>>
  /\ UNCHANGED sanVars
  /\ sanitizerPasses' = sanitizerPasses + 1
  /\ UNCHANGED insertedSince
  /\ UNCHANGED sideVars

\* await generateTOC(); restoreScrollPosition(...): the try block completes.
RenderComplete ==
  /\ renderPc = "toc"
  /\ renderPc' = "done"
  /\ UNCHANGED <<items, markup, contentDiv, registryVars, tasks, fetchSt, schedVars, histVars>>
  /\ UNCHANGED sanVars
  /\ UNCHANGED passVars
  /\ UNCHANGED sideVars

\* Variant of PipelineError that puts the error message in front of what the
\* rendering area holds instead of replacing it.
PipelineErrorKeepsContent ==
  /\ renderPc \in {"stringify", "toc"}
  /\ contentDiv' = [state |-> "error", el |-> contentDiv.el]
  /\ renderPc' = "done"
  /\ UNCHANGED <<items, markup, registryVars, tasks, fetchSt, schedVars, histVars>>
  /\ UNCHANGED sanVars
  /\ UNCHANGED passVars
  /\ UNCHANGED sideVars

\* The catch block of renderMarkdown: the parse/stringify pipeline threw; the
\* rendering area becomes the full-document error message.
PipelineError ==
  /\ renderPc \in {"stringify", "toc"}
  /\ contentDiv' = [state |-> "error", el |-> <<>>]
  /\ renderPc' = "done"
  /\ UNCHANGED <<items, markup, registryVars, tasks, fetchSt, schedVars, histVars>>
  /\ UNCHANGED sanVars
  /\ UNCHANGED passVars
  /\ UNCHANGED sideVars

(* ---------------------------------------------------------------------- *)
(* The retrievals started by processSvgImages                              *)
(* ---------------------------------------------------------------------- *)

\* The promise chains run only between tasks of the event loop: the extraction
\* loop and the injection that follows it are synchronous.  A chain that
\* settles while renderMarkdown awaits generateTOC touches only the task, so it
\* is taken after renderMarkdown has returned, which reaches the same states.
Settles(id) == renderPc = "done" /\ id \in 1..Len(tasks)

\* Variant of RemoteResponse for a chain written .catch(...).then(...): after
\* the error has been recorded the chain goes on to the content handler.
RemoteResponseCatchFirst(id, ok) ==
  /\ Settles(id)
  /\ tasks[id].kind = "svgRemote"
  /\ fetchSt[id] = "pending"
  /\ fetchSt' = [fetchSt EXCEPT ![id] = "response"]
  /\ tasks' = [tasks EXCEPT ![id] = IF ok THEN @ ELSE setError(@, "fetchError")]
  /\ UNCHANGED <<renderVars, registryVars, schedVars, histVars>>
  /\ UNCHANGED sanVars
  /\ UNCHANGED passVars
  /\ UNCHANGED sideVars

\* fetch(src).then(response => { if (!response.ok) throw ...; return response.text(); })
\* ok = TRUE: the response is OK and text() is pending;
\* ok = FALSE: the fetch rejected or the status is not OK: .catch(setError).
RemoteResponse(id, ok) ==
  /\ Settles(id)
  /\ tasks[id].kind = "svgRemote"
  /\ fetchSt[id] = "pending"
  /\ IF ok
       THEN /\ fetchSt' = [fetchSt EXCEPT ![id] = "response"]
            /\ UNCHANGED tasks
       ELSE /\ fetchSt' = [fetchSt EXCEPT ![id] = "settled"]
            /\ tasks' = [tasks EXCEPT ![id] = setError(@, "fetchError")]
  /\ UNCHANGED <<renderVars, registryVars, schedVars, histVars>>
  /\ UNCHANGED sanVars
  /\ UNCHANGED passVars
  /\ UNCHANGED sideVars

\* .then(content => { data.svgContent = content; setReady(); }) or, when text()
\* rejects, .catch(error => setError(error)).
RemoteText(id, ok) ==
  /\ Settles(id)
  /\ fetchSt[id] = "response"
  /\ fetchSt' = [fetchSt EXCEPT ![id] = "settled"]
  /\ tasks' = [tasks EXCEPT ![id] =
                 IF ok THEN setReady([@ EXCEPT !.svgContent = "content"])
                       ELSE setError(@, "fetchError")]
  /\ UNCHANGED <<renderVars, registryVars, schedVars, histVars>>
  /\ UNCHANGED sanVars
  /\ UNCHANGED passVars
  /\ UNCHANGED sideVars

\* Variant of LocalResponse without the test of the response's error field:
\* whatever the response carries as content is stored and the task is ready.
LocalResponseErrorIgnored(id, r) ==
  /\ Settles(id)
  /\ tasks[id].kind = "svgLocal"
  /\ fetchSt[id] = "pending"
  /\ fetchSt' = [fetchSt EXCEPT ![id] = "settled"]
  /\ tasks' = [tasks EXCEPT ![id] =
                 IF r = "content" THEN setReady([@ EXCEPT !.svgContent = "content"])
                 ELSE IF r = "error" THEN setReady(@)
                 ELSE setError(@, "fetchError")]
  /\ UNCHANGED <<renderVars, registryVars, schedVars, histVars>>
  /\ UNCHANGED sanVars
  /\ UNCHANGED passVars
  /\ UNCHANGED sideVars

\* chrome.runtime.sendMessage({type: 'READ_LOCAL_FILE'}).then(...).catch(...)
\* r = "content": the response carries the file; "error": it carries an error
\* field; "reject": the message was rejected.
LocalResponse(id, r) ==
  /\ Settles(id)
  /\ tasks[id].kind = "svgLocal"
  /\ fetchSt[id] = "pending"
  /\ fetchSt' = [fetchSt EXCEPT ![id] = "settled"]
  /\ tasks' = [tasks EXCEPT ![id] =
                 IF r = "content" THEN setReady([@ EXCEPT !.svgContent = "content"])
                                  ELSE setError(@, "fetchError")]
  /\ UNCHANGED <<renderVars, registryVars, schedVars, histVars>>
  /\ UNCHANGED sanVars
  /\ UNCHANGED passVars
  /\ UNCHANGED sideVars

(* ---------------------------------------------------------------------- *)
(* The live document                                                       *)
(* ---------------------------------------------------------------------- *)

\* document.getElementById(id): the position of the element carrying the id,
\* 0 when no such element is in the live document.
getElementById(div, M, id) ==
  IF div.state = "html" /\ \E p \in 1..Len(M) : M[p] = id /\ div.el[p] = "placeholder"
    THEN CHOOSE p \in 1..Len(M) : M[p] = id /\ div.el[p] = "placeholder"
    ELSE 0

\* Variant of setOuterHTML that falls back to appending the element to the
\* rendering area when the placeholder is not found.
setOuterHTMLAppends(div, M, id, element) ==
  LET p == getElementById(div, M, id)
  IN  IF p = 0 THEN [div EXCEPT !.el = Append(@, element)]
               ELSE [div EXCEPT !.el[p] = element]

\* placeholder.outerHTML = ... for the element found by getElementById,
\* skipped when there is none (if (placeholder) { ... }).
setOuterHTML(div, M, id, element) ==
  LET p == getElementById(div, M, id)
  IN  IF p = 0 THEN div ELSE [div EXCEPT !.el[p] = element]

(* ---------------------------------------------------------------------- *)
(* processAsyncTasks                                                       *)
(* ---------------------------------------------------------------------- *)

\* Variant of readyTaskIndex that takes the head of the queue whatever its
\* status (asyncTaskQueue.shift()).
readyTaskIndexHead(queue, T) == IF Len(queue) = 0 THEN 0 ELSE 1

\* Variant of readyTaskIndex that takes the last drainable task (findLastIndex).
readyTaskIndexLast(queue, T) ==
  LET hits == {i \in 1..Len(queue) : T[queue[i]].status \in {"ready", "error"}}
  IN  IF hits = {} THEN 0 ELSE CHOOSE i \in hits : \A j \in hits : i >= j

\* asyncTaskQueue.findIndex(task => task.status === 'ready' || task.status === 'error'):
\* the first queue index holding a drainable task, 0 when there is none (-1 in the code).
readyTaskIndex(queue, T) ==
  LET hits == {i \in 1..Len(queue) : T[queue[i]].status \in {"ready", "error"}}
  IN  IF hits = {} THEN 0 ELSE CHOOSE i \in hits : \A j \in hits : i <= j

\* Variant of splice that leaves the queue as it is (slice instead of splice).
spliceKeeps(queue, index) == queue

\* asyncTaskQueue.splice(index, 1): the queue without the element at index.
splice(queue, index) ==
  [i \in 1..(Len(queue) - 1) |-> IF i < index THEN queue[i] ELSE queue[i + 1]]

\* asyncTaskQueue.filter(task => task.status === 'fetching')
fetchingTasks(queue, T) == {i \in 1..Len(queue) : T[queue[i]].status = "fetching"}

\* updateProgress(completed, total): progress = completed / total.
updateProgress(completed, total) ==
  [computed |-> TRUE, completed |-> completed, total |-> total]

\* The outcomes the backend of a task type can produce: only the HTML callback
\* checks the returned image data ("invalid": empty or non-PNG data, or an
\* error field in the result).
RenderOutcomesOf(type) ==
  IF type = "html" THEN RenderOutcomes ELSE RenderOutcomes \ {"invalid"}

\* Variant of callsRenderer for a callback without the content check.
callsRendererAlways(t) == TRUE

\* The SVG callback throws 'No SVG content available' before calling the
\* backend when data.svgContent is not set; the other callbacks always call it.
callsRenderer(t) == ~(t.type = "svg" /\ t.svgContent = "null")

\* Variant of callback whose HTML branch returns without touching the
\* placeholder when the backend returns invalid image data.
callbackInvalidSilent(div, M, t, outcome) ==
  LET present == getElementById(div, M, t.id) # 0
  IN  IF ~callsRenderer(t)
        THEN [div |-> setOuterHTML(div, M, t.id, "callbackError"), threw |-> FALSE]
      ELSE IF outcome = "ok"
        THEN [div |-> setOuterHTML(div, M, t.id, "image"), threw |-> FALSE]
      ELSE IF outcome = "fail"
        THEN [div |-> setOuterHTML(div, M, t.id, "callbackError"), threw |-> FALSE]
      ELSE IF outcome = "invalid"
        THEN [div |-> div, threw |-> FALSE]
      ELSE [div |-> div, threw |-> present]

\* task.callback(task.data): the three callbacks registered by the extraction.
\* Each wraps the backend call in try/catch and writes an image or its own
\* error block at the placeholder; it throws only from its catch block, while
\* formatting the report for a placeholder that exists.
callback(div, M, t, outcome) ==
  LET present == getElementById(div, M, t.id) # 0
  IN  IF ~callsRenderer(t)
        THEN [div |-> setOuterHTML(div, M, t.id, "callbackError"), threw |-> FALSE]
      ELSE IF outcome = "ok"
        THEN [div |-> setOuterHTML(div, M, t.id, "image"), threw |-> FALSE]
      ELSE IF outcome \in {"invalid", "fail"}
        THEN [div |-> setOuterHTML(div, M, t.id, "callbackError"), threw |-> FALSE]
      ELSE [div |-> div, threw |-> present]

\* Variant of Start for a drain pass started from inside the extraction,
\* without waiting for renderMarkdown to assign the markup.
StartBeforeInjection ==
  /\ renderPc \in {"inject", "done"}
  /\ pc = "idle"
  /\ IF Len(asyncTaskQueue) = 0
       THEN /\ pc' = "done"
            /\ UNCHANGED <<totalTasks, completedTasks, indicator, progress>>
       ELSE /\ totalTasks' = Len(asyncTaskQueue)
            /\ indicator' = "shown"
            /\ progress' = updateProgress(0, Len(asyncTaskQueue))
            /\ completedTasks' = 0
            /\ pc' = "loop"
  /\ UNCHANGED <<renderVars, registryVars, tasks, fetchSt, task, histVars>>
  /\ UNCHANGED sanVars
  /\ UNCHANGED passVars
  /\ UNCHANGED sideVars

\* Entry of processAsyncTasks (the 200 ms timer of the main flow fires after
\* renderMarkdown has returned).
Start ==
  /\ renderPc = "done"
  /\ pc = "idle"
  /\ IF Len(asyncTaskQueue) = 0
       THEN /\ pc' = "done"
            /\ UNCHANGED <<totalTasks, completedTasks, indicator, progress>>
       ELSE /\ totalTasks' = Len(asyncTaskQueue)
            /\ indicator' = "shown"
            /\ progress' = updateProgress(0, Len(asyncTaskQueue))
            /\ completedTasks' = 0
            /\ pc' = "loop"
  /\ UNCHANGED <<renderVars, registryVars, tasks, fetchSt, task, histVars>>
  /\ UNCHANGED sanVars
  /\ UNCHANGED passVars
  /\ UNCHANGED sideVars

\* Variant of DrainError that treats a task in error state like a ready one
\* and awaits its callback.
DrainErrorInvokesCallback ==
  /\ pc = "loop"
  /\ Len(asyncTaskQueue) > 0
  /\ LET index == readyTaskIndex(asyncTaskQueue, tasks)
     IN  /\ index # 0
         /\ LET id == asyncTaskQueue[index]
            IN  /\ tasks[id].status = "error"
                /\ asyncTaskQueue' = splice(asyncTaskQueue, index)
                /\ removed' = Count(removed, id)
                /\ callbackRuns' = Count(callbackRuns, id)
                /\ rendererCalls' = IF callsRenderer(tasks[id])
                                      THEN Count(rendererCalls, id) ELSE rendererCalls
                /\ task' = id
  /\ pc' = "callback"
  /\ UNCHANGED <<renderVars, asyncTaskIdCounter, tasks, fetchSt, totalTasks,
                 completedTasks, indicator, progress, reports, rejected>>
  /\ UNCHANGED sanVars
  /\ UNCHANGED passVars
  /\ UNCHANGED sideVars

\* Loop iteration that finds a task in error state: the whole iteration is
\* synchronous (splice, error report, completedTasks++, updateProgress).
DrainError ==
  /\ pc = "loop"
  /\ Len(asyncTaskQueue) > 0
  /\ LET index == readyTaskIndex(asyncTaskQueue, tasks)
     IN  /\ index # 0
         /\ LET id == asyncTaskQueue[index]
            IN  /\ tasks[id].status = "error"
                /\ asyncTaskQueue' = splice(asyncTaskQueue, index)
                /\ removed' = Count(removed, id)
                /\ reports' = IF getElementById(contentDiv, markup, id) # 0
                                THEN Count(reports, id) ELSE reports
                /\ contentDiv' = setOuterHTML(contentDiv, markup, id, "taskError")
  /\ completedTasks' = completedTasks + 1
  /\ progress' = updateProgress(completedTasks + 1, totalTasks)
  /\ UNCHANGED <<items, renderPc, markup, asyncTaskIdCounter, tasks, fetchSt,
                 pc, task, totalTasks, indicator, callbackRuns, rendererCalls, rejected>>
  /\ UNCHANGED sanVars
  /\ insertedSince' = insertedSince + (IF contentDiv' # contentDiv THEN 1 ELSE 0)
  /\ UNCHANGED sanitizerPasses
  /\ UNCHANGED sideVars

\* Variant of DrainReady for a loop that does not wait for the callback it
\* has started before it takes the next drainable task.
DrainReadyWhileAwaiting ==
  /\ pc \in {"loop", "callback"}
  /\ Len(asyncTaskQueue) > 0
  /\ LET index == readyTaskIndex(asyncTaskQueue, tasks)
     IN  /\ index # 0
         /\ LET id == asyncTaskQueue[index]
            IN  /\ tasks[id].status # "error"
                /\ asyncTaskQueue' = splice(asyncTaskQueue, index)
                /\ removed' = Count(removed, id)
                /\ callbackRuns' = Count(callbackRuns, id)
                /\ rendererCalls' = IF callsRenderer(tasks[id])
                                      THEN Count(rendererCalls, id) ELSE rendererCalls
                /\ task' = id
  /\ pc' = "callback"
  /\ UNCHANGED <<renderVars, asyncTaskIdCounter, tasks, fetchSt, totalTasks,
                 completedTasks, indicator, progress, reports, rejected>>
  /\ UNCHANGED sanVars
  /\ UNCHANGED passVars
  /\ UNCHANGED sideVars

\* Loop iteration that finds a ready task: splice it out and await its callback.
DrainReady ==
  /\ pc = "loop"
  /\ Len(asyncTaskQueue) > 0
  /\ LET index == readyTaskIndex(asyncTaskQueue, tasks)
     IN  /\ index # 0
         /\ LET id == asyncTaskQueue[index]
            IN  /\ tasks[id].status # "error"
                /\ asyncTaskQueue' = splice(asyncTaskQueue, index)
                /\ removed' = Count(removed, id)
                /\ callbackRuns' = Count(callbackRuns, id)
                /\ rendererCalls' = IF callsRenderer(tasks[id])
                                      THEN Count(rendererCalls, id) ELSE rendererCalls
                /\ task' = id
  /\ pc' = "callback"
  /\ UNCHANGED <<renderVars, asyncTaskIdCounter, tasks, fetchSt, totalTasks,
                 completedTasks, indicator, progress, reports, rejected>>
  /\ UNCHANGED sanVars
  /\ UNCHANGED passVars
  /\ UNCHANGED sideVars

\* Variant of CallbackSettles without the catch block: a rejection propagates
\* out of processAsyncTasks, which ends there.
CallbackSettlesNoCatch(outcome) ==
  /\ pc = "callback"
  /\ outcome \in RenderOutcomesOf(tasks[task].type)
  /\ LET r == callback(contentDiv, markup, tasks[task], outcome)
     IN  /\ contentDiv' = r.div
         /\ IF r.threw
              THEN /\ rejected' = Count(rejected, task)
                   /\ pc' = "done"
                   /\ UNCHANGED <<completedTasks, progress>>
              ELSE /\ UNCHANGED rejected
                   /\ pc' = "loop"
                   /\ completedTasks' = completedTasks + 1
                   /\ progress' = updateProgress(completedTasks + 1, totalTasks)
  /\ task' = 0
  /\ UNCHANGED <<items, renderPc, markup, registryVars, tasks, fetchSt, totalTasks,
                 indicator, removed, callbackRuns, rendererCalls, reports>>
  /\ UNCHANGED sanVars
  /\ insertedSince' = insertedSince + (IF contentDiv' # contentDiv THEN 1 ELSE 0)
  /\ UNCHANGED sanitizerPasses
  /\ UNCHANGED sideVars

\* Variant of CallbackSettles whose catch block writes the report but does not
\* count the task.
CallbackSettlesUncounted(outcome) ==
  /\ pc = "callback"
  /\ outcome \in RenderOutcomesOf(tasks[task].type)
  /\ LET r == callback(contentDiv, markup, tasks[task], outcome)
     IN  IF r.threw
           THEN /\ reports' = Count(reports, task)
                /\ contentDiv' = setOuterHTML(r.div, markup, task, "catchError")
                /\ rejected' = Count(rejected, task)
                /\ UNCHANGED <<completedTasks, progress>>
           ELSE /\ contentDiv' = r.div
                /\ UNCHANGED <<reports, rejected>>
                /\ completedTasks' = completedTasks + 1
                /\ progress' = updateProgress(completedTasks + 1, totalTasks)
  /\ task' = 0
  /\ pc' = "loop"
  /\ UNCHANGED <<items, renderPc, markup, registryVars, tasks, fetchSt, totalTasks,
                 indicator, removed, callbackRuns, rendererCalls>>
  /\ UNCHANGED sanVars
  /\ insertedSince' = insertedSince + (IF contentDiv' # contentDiv THEN 1 ELSE 0)
  /\ UNCHANGED sanitizerPasses
  /\ UNCHANGED sideVars

\* The awaited callback settles: on fulfilment the task is counted; on rejection
\* the catch block writes the error report and counts the task.
CallbackSettles(outcome) ==
  /\ pc = "callback"
  /\ outcome \in RenderOutcomesOf(tasks[task].type)
  /\ LET r == callback(contentDiv, markup, tasks[task], outcome)
     IN  IF r.threw
           THEN /\ reports' = IF getElementById(r.div, markup, task) # 0
                                THEN Count(reports, task) ELSE reports
                /\ contentDiv' = setOuterHTML(r.div, markup, task, "catchError")
                /\ rejected' = Count(rejected, task)
           ELSE /\ contentDiv' = r.div
                /\ UNCHANGED <<reports, rejected>>
  /\ completedTasks' = completedTasks + 1
  /\ progress' = updateProgress(completedTasks + 1, totalTasks)
  /\ task' = 0
  /\ pc' = "loop"
  /\ UNCHANGED <<items, renderPc, markup, registryVars, tasks, fetchSt, totalTasks,
                 indicator, removed, callbackRuns, rendererCalls>>
  /\ UNCHANGED sanVars
  /\ insertedSince' = insertedSince + (IF contentDiv' # contentDiv THEN 1 ELSE 0)
  /\ UNCHANGED sanitizerPasses
  /\ UNCHANGED sideVars

\* Variant of Poll that looks at the head of the queue only: it waits whenever
\* the first task is fetching.
PollHeadFetching ==
  /\ pc = "loop"
  /\ Len(asyncTaskQueue) > 0
  /\ tasks[asyncTaskQueue[1]].status = "fetching"
  /\ pc' = "sleep"
  /\ UNCHANGED <<renderVars, registryVars, tasks, fetchSt, task, totalTasks,
                 completedTasks, indicator, progress, histVars>>
  /\ UNCHANGED sanVars
  /\ UNCHANGED passVars
  /\ UNCHANGED sideVars

\* Loop iteration that finds no drainable task: wait 100 ms when some task is
\* fetching, break out of the loop (and hide the indicator) when none is.
Poll ==
  /\ pc = "loop"
  /\ Len(asyncTaskQueue) > 0
  /\ readyTaskIndex(asyncTaskQueue, tasks) = 0
  /\ IF fetchingTasks(asyncTaskQueue, tasks) = {}
       THEN pc' = "done" /\ indicator' = "hidden"
       ELSE pc' = "sleep" /\ UNCHANGED indicator
  /\ UNCHANGED <<renderVars, registryVars, tasks, fetchSt, task, totalTasks,
                 completedTasks, progress, histVars>>
  /\ UNCHANGED sanVars
  /\ UNCHANGED passVars
  /\ UNCHANGED sideVars

\* The 100 ms timer fires: check again.
Wake ==
  /\ pc = "sleep"
  /\ pc' = "loop"
  /\ UNCHANGED <<renderVars, registryVars, tasks, fetchSt, task, totalTasks,
                 completedTasks, indicator, progress, histVars>>
  /\ UNCHANGED sanVars
  /\ UNCHANGED passVars
  /\ UNCHANGED sideVars

\* The loop condition fails (queue empty): hideProcessingIndicator and return.
Finish ==
  /\ pc = "loop"
  /\ Len(asyncTaskQueue) = 0
  /\ indicator' = "hidden"
  /\ pc' = "done"
  /\ UNCHANGED <<renderVars, registryVars, tasks, fetchSt, task, totalTasks,
                 completedTasks, progress, histVars>>
  /\ UNCHANGED sanVars
  /\ UNCHANGED passVars
  /\ UNCHANGED sideVars

(* ---------------------------------------------------------------------- *)
(* Specifications                                                          *)
(* ---------------------------------------------------------------------- *)

RenderStep ==
  \/ RunRemarkHtmlToPng
  \/ RunRemarkMermaidToPng
  \/ RunProcessSvgImages
  \/ Inject
  \/ RenderComplete
  \/ PipelineError

FetchStep ==
  \/ \E id \in 1..MaxItems, ok \in BOOLEAN : RemoteResponse(id, ok)
  \/ \E id \in 1..MaxItems, ok \in BOOLEAN : RemoteText(id, ok)
  \/ \E id \in 1..MaxItems, r \in {"content", "error", "reject"} : LocalResponse(id, r)

SchedulerStep ==
  \/ Start
  \/ DrainError
  \/ DrainReady
  \/ \E outcome \in RenderOutcomes : CallbackSettles(outcome)
  \/ Poll
  \/ Wake
  \/ Finish

Next == RenderStep \/ FetchStep \/ SchedulerStep

Spec == Init /\ [][Next]_vars

\* Every retrieval settles, every callback returns, every timer fires.
FairSpec == Spec /\ WF_vars(RenderStep) /\ WF_vars(FetchStep) /\ WF_vars(SchedulerStep)

TypeOK ==
  /\ items \in Documents
  /\ renderPc \in {"html", "mermaid", "stringify", "inject", "toc", "done"}
  /\ pc \in {"idle", "loop", "callback", "sleep", "done"}
  /\ contentDiv.state \in {"empty", "html", "error"}
  /\ asyncTaskIdCounter = Len(tasks)
  /\ Len(fetchSt) = Len(tasks)
  /\ \A n \in 1..Len(tasks) :
       /\ tasks[n].status \in {"fetching", "ready", "error"}
       /\ fetchSt[n] \in {"none", "pending", "response", "settled"}
  /\ indicator \in {"hidden", "shown"}

(* ---------------------------------------------------------------------- *)
(* Attribute values and URL validation                                     *)
(* ---------------------------------------------------------------------- *)

\* An attribute value is a sequence of tokens: " " is a run of white space,
\* "," a comma, a token ending in ":" a scheme as written in the document,
\* "java<TAB>script:" a scheme with a tab character inside.

\* String.prototype.trim: drop the white space at both ends.
RECURSIVE trimStart(_)
trimStart(s) == IF s # <<>> /\ Head(s) = " " THEN trimStart(Tail(s)) ELSE s

RECURSIVE trimEnd(_)
trimEnd(s) ==
  IF s # <<>> /\ s[Len(s)] = " " THEN trimEnd(SubSeq(s, 1, Len(s) - 1)) ELSE s

trim(s) == trimEnd(trimStart(s))

\* String.prototype.toLowerCase, token by token.
lowerOf(tok) ==
  CASE tok = "JavaScript:" -> "javascript:"
    [] tok = "HTTPS:" -> "https:"
    [] tok = "DATA:" -> "data:"
    [] OTHER -> tok

toLowerCase(s) == [i \in 1..Len(s) |-> lowerOf(s[i])]

\* String.prototype.startsWith
startsWith(s, prefix) ==
  Len(s) >= Len(prefix) /\ SubSeq(s, 1, Len(prefix)) = prefix

\* String.prototype.split(sep): the pieces between the separators.
RECURSIVE split(_, _)
split(s, sep) ==
  IF \E i \in 1..Len(s) : s[i] = sep
    THEN LET i == CHOOSE k \in 1..Len(s) : s[k] = sep /\ \A j \in 1..(k - 1) : s[j] # sep
         IN  <<SubSeq(s, 1, i - 1)>> \o split(SubSeq(s, i + 1, Len(s)), sep)
    ELSE <<s>>

SchemeTokens ==
  {"http:", "https:", "HTTPS:", "mailto:", "tel:", "chrome-extension:", "file:",
   "ftp:", "javascript:", "JavaScript:", "java<TAB>script:", "vbscript:",
   "data:", "DATA:"}

\* new URL(trimmed, document.baseURI).protocol: the URL parser removes tabs and
\* newlines and lower-cases the scheme; a value without a scheme is resolved
\* against the base; "invalid" stands for the TypeError of an unparsable URL.
protocol(trimmed, base) ==
  IF \E i \in 1..Len(trimmed) : trimmed[i] = "//[bad" THEN "invalid"
  ELSE IF Head(trimmed) = "java<TAB>script:" THEN "javascript:"
  ELSE IF Head(trimmed) \in SchemeTokens THEN lowerOf(Head(trimmed))
  ELSE base

SafeProtocols == {"http:", "https:", "mailto:", "tel:", "chrome-extension:", "file:"}

\* Variant of isSafeUrl with the block-list only: whatever is not a
\* script-executing scheme is accepted.
isSafeUrlBlockListOnly(url, base) ==
  IF url = <<>> THEN TRUE
  ELSE LET trimmed == trim(url)
       IN  IF trimmed = <<>> \/ startsWith(trimmed, <<"#">>) THEN TRUE
           ELSE LET lower == toLowerCase(trimmed)
                IN  IF \/ startsWith(lower, <<"javascript:">>)
                       \/ startsWith(lower, <<"vbscript:">>)
                       \/ startsWith(lower, <<"data:", "text/javascript">>)
                      THEN FALSE
                    ELSE IF startsWith(lower, <<"data:">>)
                      THEN \/ startsWith(lower, <<"data:", "image/">>)
                           \/ startsWith(lower, <<"data:", "application/pdf">>)
                    ELSE TRUE

\* isSafeUrl(url)
isSafeUrl(url, base) ==
  IF url = <<>> THEN TRUE
  ELSE LET trimmed == trim(url)
       IN  IF trimmed = <<>> \/ startsWith(trimmed, <<"#">>) THEN TRUE
           ELSE LET lower == toLowerCase(trimmed)
                IN  IF \/ startsWith(lower, <<"javascript:">>)
                       \/ startsWith(lower, <<"vbscript:">>)
                       \/ startsWith(lower, <<"data:", "text/javascript">>)
                      THEN FALSE
                    ELSE IF startsWith(lower, <<"data:">>)
                      THEN \/ startsWith(lower, <<"data:", "image/">>)
                           \/ startsWith(lower, <<"data:", "application/pdf">>)
                    ELSE protocol(trimmed, base) \in SafeProtocols

\* candidate.trim().split(/\s+/)[0]: the URL part of a srcset candidate.
urlPart(candidate) ==
  LET c == trim(candidate)
  IN  IF \E i \in 1..Len(c) : c[i] = " "
        THEN SubSeq(c, 1, (CHOOSE k \in 1..Len(c) : c[k] = " " /\ \A j \in 1..(k - 1) : c[j] # " ") - 1)
        ELSE c

\* Variant of isSafeSrcset that is satisfied by one safe candidate
\* (some instead of every).
isSafeSrcsetSome(value, base) ==
  IF value = <<>> THEN TRUE
  ELSE LET candidates == split(value, ",")
       IN  \E i \in 1..Len(candidates) : isSafeUrl(urlPart(candidates[i]), base)

\* isSafeSrcset(value)
isSafeSrcset(value, base) ==
  IF value = <<>> THEN TRUE
  ELSE LET candidates == split(value, ",")
       IN  \A i \in 1..Len(candidates) : isSafeUrl(urlPart(candidates[i]), base)

(* ---------------------------------------------------------------------- *)
(* Markup and the sanitizer                                                *)
(* ---------------------------------------------------------------------- *)

\* Markup is kept parsed: a fragment is a sequence of nodes, a node is an
\* element, a text node or a comment.  template.innerHTML = html and the
\* read of template.innerHTML are the parse and the serialization between
\* the string and this form.  The text of a text node is "ws" (white space
\* only), "nbsp" (the &nbsp; entity), "chars" (a few characters) or "long"
\* (a run of more than a hundred characters).
Element(tag, attrs, kids) == [tag |-> tag, attrs |-> attrs, kids |-> kids, text |-> ""]

Text(t) == [tag |-> "#text", attrs |-> {}, kids |-> <<>>, text |-> t]

Comment == [tag |-> "#comment", attrs |-> {}, kids |-> <<>>, text |-> ""]

Attr(name, value) == [name |-> name, value |-> value]

\* const blockedTags = new Set(['SCRIPT', 'IFRAME', 'OBJECT', 'EMBED', 'AUDIO', 'VIDEO'])
blockedTags == {"script", "iframe", "object", "embed", "audio", "video"}

\* const urlAttributes = ['src', 'href', 'xlink:href', 'action', 'formaction', 'poster', 'data', 'srcset']
urlAttributes == {"src", "href", "xlink:href", "action", "formaction", "poster", "data", "srcset"}

\* attrName.startsWith('on'), over the attribute names of the model.
startsWithOn(name) == name \in {"onclick", "onerror"}

\* The forEach body of sanitizeElementAttributes: does the attribute stay on
\* the element?
keepsAttribute(a, base) ==
  IF startsWithOn(a.name) THEN FALSE
  ELSE IF a.name \notin urlAttributes THEN TRUE
  ELSE IF a.name = "srcset" THEN isSafeSrcset(a.value, base)
  ELSE IF a.name \in {"href", "xlink:href"} THEN a.value # <<>> /\ trim(a.value) # <<>>
  ELSE isSafeUrl(a.value, base)

\* The value a kept attribute has afterwards: element.setAttribute(attr.name, '#')
\* for href and xlink:href, untouched for every other attribute.
sanitizedValue(a) ==
  IF a.name \in {"href", "xlink:href"} THEN Attr(a.name, <<"#">>) ELSE a

\* sanitizeElementAttributes(element)
sanitizeElementAttributes(attrs, base) ==
  {sanitizedValue(a) : a \in {b \in attrs : keepsAttribute(b, base)}}

\* The <pre class="blocked-html-warning"> that replaces a blocked element; its
\* text names the blocked tag and quotes the original markup as text.
warning(node) ==
  Element("pre", {Attr("class", <<"blocked-html-warning">>)}, <<Text(node.tag)>>)

\* One round of the while loop of sanitizeNodeTree with everything it pushes:
\* a blocked element is replaced by the warning; any other element has its
\* attributes sanitized, its comment children removed and its element
\* children processed in turn.  node.childNodes of a <template> element is
\* empty (its children live in its content fragment), so nothing below a
\* nested template is visited, while the serialization includes it.
RECURSIVE sanitizeNode(_, _)
sanitizeNode(node, base) ==
  IF node.tag = "#text" THEN node
  ELSE IF node.tag \in blockedTags THEN warning(node)
  ELSE [node EXCEPT
          !.attrs = sanitizeElementAttributes(@, base),
          !.kids = IF node.tag = "template" THEN @
                   ELSE LET els == SelectSeq(@, LAMBDA c : c.tag # "#comment")
                        IN  [i \in 1..Len(els) |-> sanitizeNode(els[i], base)]]

\* sanitizeNodeTree(root): the children of the root, comments removed.
sanitizeNodeTree(root, base) ==
  LET els == SelectSeq(root, LAMBDA c : c.tag # "#comment")
  IN  [i \in 1..Len(els) |-> sanitizeNode(els[i], base)]

\* sanitizeRenderedHtml(html).  (The catch branch, which returns the input,
\* is not reachable for a string argument.)
sanitizeRenderedHtml(html, base) == sanitizeNodeTree(html, base)

(* ---------------------------------------------------------------------- *)
(* remarkHtmlToPng: the visitor of one raw html node                       *)
(* ---------------------------------------------------------------------- *)

IsWhitespace(node) == node.tag = "#text" /\ node.text = "ws"

\* node.value.trim(): white space at both ends of the node value goes.
RECURSIVE trimHtmlStart(_)
trimHtmlStart(html) ==
  IF html # <<>> /\ IsWhitespace(Head(html)) THEN trimHtmlStart(Tail(html)) ELSE html

RECURSIVE trimHtmlEnd(_)
trimHtmlEnd(html) ==
  IF html # <<>> /\ IsWhitespace(html[Len(html)])
    THEN trimHtmlEnd(SubSeq(html, 1, Len(html) - 1)) ELSE html

trimHtml(html) == trimHtmlEnd(trimHtmlStart(html))

\* /^(?:<br\s*\/?>(?:\s|&nbsp;)*)+$/i.test(htmlContent): one or more bare <br>
\* tags, each followed by white space or &nbsp; entities only.
isLineBreaksOnly(html) ==
  /\ html # <<>>
  /\ Head(html) = Element("br", {}, <<>>)
  /\ \A i \in 1..Len(html) :
       \/ html[i] = Element("br", {}, <<>>)
       \/ html[i].tag = "#text" /\ html[i].text \in {"ws", "nbsp"}

\* !sanitizedHtml || sanitizedHtml.replace(/\s+/g, '').length <= 0
isBlank(html) == \A i \in 1..Len(html) : IsWhitespace(html[i])

\* The early returns of the visitor: is a task registered for this node?
extracts(html, base) ==
  LET htmlContent == trimHtml(html)
  IN  /\ htmlContent # <<>>
      /\ ~isLineBreaksOnly(htmlContent)
      /\ ~isBlank(sanitizeRenderedHtml(htmlContent, base))

\* Number of characters a significant HTML block must exceed.
MinHtmlLength == 100

textLength(t) ==
  CASE t = "ws" -> 1
    [] t = "nbsp" -> 6
    [] t = "chars" -> 5
    [] t = "long" -> 120
    [] OTHER -> 10

\* htmlContent.length, with nominal widths: ten characters for the tags of an
\* element, twelve for each attribute, seven for a comment.
RECURSIVE htmlLength(_)
htmlLength(html) ==
  IF html = <<>> THEN 0
  ELSE LET node == Head(html)
           own == IF node.tag = "#text" THEN textLength(node.text)
                  ELSE IF node.tag = "#comment" THEN 7
                  ELSE 10 + 12 * Cardinality(node.attrs) + htmlLength(node.kids)
       IN  own + htmlLength(Tail(html))

\* The test of the earlier content script: the trimmed node value starts with
\* <div, <table or <svg and is longer than 100 characters.
isSignificantHtml(html) ==
  LET htmlContent == trimHtml(html)
  IN  /\ htmlContent # <<>>
      /\ Head(htmlContent).tag \in {"div", "table", "svg"}
      /\ htmlLength(htmlContent) > MinHtmlLength

\* Variant of taskCode that queues the node value as written.
taskCodeRaw(html, base) == html

\* { code: sanitizedHtml }: the data of the task registered for the node.
taskCode(html, base) == sanitizeRenderedHtml(trimHtml(html), base)

(* ---------------------------------------------------------------------- *)
(* The raw html nodes and attribute values studied                         *)
(* ---------------------------------------------------------------------- *)

\* Deepest nesting of wrapper elements around a leaf node.
MaxNest == 1

UrlBodies ==
  {<<"https:", "//example.com">>, <<"http:", "//example.com">>,
   <<"HTTPS:", "//example.com">>, <<"https:", "//[bad">>,
   <<"mailto:", "a@b">>, <<"tel:", "123">>, <<"chrome-extension:", "//id/x">>,
   <<"file:", "///x">>, <<"ftp:", "//x">>,
   <<"javascript:", "alert(1)">>, <<"JavaScript:", "alert(1)">>,
   <<"java<TAB>script:", "alert(1)">>, <<"vbscript:", "msgbox">>,
   <<"data:", "image/", "png;base64", ",", "AAAA">>,
   <<"data:", "application/pdf", ";base64", ",", "AAAA">>,
   <<"data:", "text/html", ",", "<script>">>,
   <<"data:", "text/javascript", ",", "alert(1)">>,
   <<"DATA:", "text/html", ",", "x">>,
   <<"#", "top">>, <<"images/a.png">>}

UrlValues == {<<>>, <<" ">>} \cup UrlBodies \cup {<<" ">> \o b \o <<" ">> : b \in UrlBodies}

\* A few values for the URL attributes that are handled like src.
FewUrlValues ==
  {<<"https:", "//example.com">>, <<"javascript:", "alert(1)">>,
   <<"data:", "application/pdf", ";base64", ",", "AAAA">>,
   <<"data:", "text/html", ",", "<script>">>}

\* The URL candidates a srcset value is written from.
SrcsetCandidates ==
  {<<"images/a.png">>, <<"https:", "//example.com">>, <<"javascript:", "alert(1)">>,
   <<"data:", "image/", "png;base64", ",", "AAAA">>,
   <<"data:", "text/html", ",", "<script>">>, <<"ftp:", "//x">>}

\* The srcset value that lists the candidates: "url 1x, url 2x".
srcsetOf(cands) ==
  IF Len(cands) = 1 THEN cands[1] \o <<" ", "1x">>
  ELSE cands[1] \o <<" ", "1x", ",", " ">> \o cands[2] \o <<" ", "2x">>

CandidateLists ==
  {<<c>> : c \in SrcsetCandidates} \cup {<<c, d>> : c, d \in SrcsetCandidates}

SrcsetValues == {<<>>, <<" ">>} \cup {srcsetOf(cands) : cands \in CandidateLists}

Attributes ==
  {Attr(n, v) : n \in {"src", "href"}, v \in UrlValues}
    \cup {Attr(n, v) : n \in {"xlink:href", "action", "formaction", "poster", "data"},
                       v \in FewUrlValues}
    \cup {Attr("srcset", v) : v \in SrcsetValues}
    \cup {Attr("onclick", <<"alert(1)">>), Attr("onerror", <<"alert(1)">>),
          Attr("class", <<"note">>)}

Tags == {"div", "table", "svg", "span", "br", "a", "img", "template"} \cup blockedTags

TextNodes == {Text("ws"), Text("nbsp"), Text("chars"), Text("long")}

Leaves ==
  TextNodes \cup {Comment}
    \cup {Element(tag, {}, <<>>) : tag \in Tags}
    \cup {Element("a", {a}, <<>>) : a \in Attributes}
    \cup {Element("img", {Attr("onclick", <<"alert(1)">>), a}, <<>>) :
            a \in {Attr("src", <<"https:", "//example.com">>),
                   Attr("src", <<"javascript:", "alert(1)">>)}}

\* The elements that wrap a child in the inputs.
Wrappers(kid) ==
  {Element(tag, attrs, <<kid>>) :
     tag \in {"div", "template", "object"},
     attrs \in {{}, {Attr("onclick", <<"alert(1)">>)}}}

RECURSIVE Trees(_)
Trees(depth) ==
  IF depth = 0 THEN Leaves
  ELSE LET inner == Trees(depth - 1)
       IN  Leaves \cup UNION {Wrappers(kid) : kid \in inner}

\* Nodes of no weight: white space, entities, line breaks, comments.
Trivia ==
  {Text("ws"), Text("nbsp"), Comment, Element("br", {}, <<>>),
   Element("br", {Attr("class", <<"note">>)}, <<>>)}

HtmlCandidates ==
  {<<>>}
    \cup {<<n>> : n \in Trees(MaxNest)}
    \cup {<<a, b>> : a, b \in Trivia}
    \cup {<<Text("ws"), n, Text("ws")>> : n \in Trivia \cup {Element("span", {}, <<Text("chars")>>)}}
    \cup {<<Element("div", {}, <<Text("long")>>), n>> : n \in {Comment, Element("script", {}, <<>>)}}

\* The values of the raw html nodes studied: what the markdown parser makes
\* an html node of starts, after white space, with a tag or a comment.
HtmlValues ==
  {v \in HtmlCandidates : trimHtml(v) = <<>> \/ Head(trimHtml(v)).tag # "#text"}

\* document.baseURI of the pages the viewer runs on.
BaseProtocols == {"file:", "https:"}

(* ---------------------------------------------------------------------- *)
(* One raw html node through extraction and injection                      *)
(* ---------------------------------------------------------------------- *)

\* createAsyncPlaceholder(id, type, description) for an HTML-block task.
createAsyncPlaceholder ==
  Element("div", {Attr("id", <<"async-placeholder-n">>), Attr("class", <<"async-placeholder">>)},
          <<Text("chars")>>)

SanInit ==
  /\ htmlValue \in HtmlValues
  /\ baseURI \in BaseProtocols
  /\ sanPc = "raw"
  /\ taskData = <<>>
  /\ rendered = <<>>
  /\ items = <<"html">>
  /\ renderPc = "html"
  /\ markup = <<0>>
  /\ contentDiv = [state |-> "empty", el |-> <<>>]
  /\ asyncTaskQueue = <<>>
  /\ asyncTaskIdCounter = 0
  /\ tasks = <<>>
  /\ fetchSt = <<>>
  /\ pc = "idle"
  /\ task = 0
  /\ totalTasks = 0
  /\ completedTasks = 0
  /\ indicator = "hidden"
  /\ progress = [computed |-> FALSE, completed |-> 0, total |-> 0]
  /\ removed = EmptyBag
  /\ callbackRuns = EmptyBag
  /\ reports = EmptyBag
  /\ rendererCalls = EmptyBag
  /\ rejected = EmptyBag
  /\ sanitizerPasses = 0
  /\ insertedSince = 0
  /\ SideIdle

\* The visitor of remarkHtmlToPng on the node: return early, or register a
\* ready task holding the sanitized markup and put the placeholder in the tree.
VisitHtmlNode ==
  /\ sanPc = "raw"
  /\ IF extracts(htmlValue, baseURI)
       THEN LET R2 == asyncTask(Registry, "html", "html", 1, "n/a", "ready")
            IN  /\ Registered([R |-> R2, M |-> [markup EXCEPT ![1] = R2.counter]])
                /\ taskData' = Append(taskData, taskCode(htmlValue, baseURI))
       ELSE UNCHANGED <<markup, registryVars, tasks, fetchSt, taskData>>
  /\ sanPc' = "visited"
  /\ UNCHANGED <<items, renderPc, contentDiv, schedVars, histVars, htmlValue, baseURI, rendered>>
  /\ sanitizerPasses' = sanitizerPasses +
       (IF trimHtml(htmlValue) # <<>> /\ ~isLineBreaksOnly(trimHtml(htmlValue)) THEN 1 ELSE 0)
  /\ UNCHANGED insertedSince
  /\ UNCHANGED sideVars

\* htmlContent = sanitizeRenderedHtml(htmlContent); contentDiv.innerHTML = htmlContent:
\* the stringified tree holds the placeholder, or the node as written when
\* the visitor left it in the tree.
InjectHtmlNode ==
  /\ sanPc = "visited"
  /\ rendered' = sanitizeRenderedHtml(IF markup[1] > 0 THEN <<createAsyncPlaceholder>>
                                                         ELSE htmlValue, baseURI)
  /\ contentDiv' = [state |-> "html",
                    el |-> [i \in 1..Len(items) |->
                              IF markup[i] > 0 THEN "placeholder" ELSE "content"]]
  /\ sanPc' = "rendered"
  /\ UNCHANGED <<items, renderPc, markup, registryVars, tasks, fetchSt, schedVars,
                 histVars, htmlValue, baseURI, taskData>>
  /\ sanitizerPasses' = sanitizerPasses + 1
  /\ UNCHANGED insertedSince
  /\ UNCHANGED sideVars

SanNext == VisitHtmlNode \/ InjectHtmlNode

\* The study of one raw html node: every value of HtmlValues through the
\* visitor and the injection.
SanSpec == SanInit /\ [][SanNext]_vars

(* ---------------------------------------------------------------------- *)
(* The cache proxies                                                       *)
(* ---------------------------------------------------------------------- *)

coreVars == <<renderVars, registryVars, tasks, fetchSt, schedVars, histVars>>

\* The content script before any document is rendered.
ContentIdle ==
  /\ items = <<>>
  /\ renderPc = "html"
  /\ markup = <<>>
  /\ contentDiv = [state |-> "empty", el |-> <<>>]
  /\ asyncTaskQueue = <<>>
  /\ asyncTaskIdCounter = 0
  /\ tasks = <<>>
  /\ fetchSt = <<>>
  /\ pc = "idle"
  /\ task = 0
  /\ totalTasks = 0
  /\ completedTasks = 0
  /\ indicator = "hidden"
  /\ progress = [computed |-> FALSE, completed |-> 0, total |-> 0]
  /\ removed = EmptyBag
  /\ callbackRuns = EmptyBag
  /\ reports = EmptyBag
  /\ rendererCalls = EmptyBag
  /\ rejected = EmptyBag
  /\ htmlValue = <<>>
  /\ sanPc = "off"
  /\ taskData = <<>>
  /\ rendered = <<>>
  /\ baseURI = "file:"
  /\ sanitizerPasses = 0
  /\ insertedSince = 0

\* Largest number of cache proxy calls in a run.
MaxCalls == 2

\* Longest content handed to generateKey, in bytes.
MaxContentLen == 2

\* The bytes contents are made of.
ContentBytes == {0, 200}

Contents == SeqsUpTo(ContentBytes, MaxContentLen)

\* The conversion kinds a key is generated for.
KeyTypes == {"mermaid", "html", "svg"}

\* get, set, clear, getStats of BackgroundCacheManagerProxy (content script)
\* and getStats of BackgroundCacheProxy (popup).
MessageOps == {"get", "set", "clear", "getStats", "popupGetStats"}

\* What chrome.runtime.sendMessage can settle with: a rejection, no response
\* at all (undefined), a response carrying an error field, a good response.
Responses == {"reject", "undefined", "error", "ok"}

\* The try block of a proxy method: "threw" when the await rejects, when
\* response.error is read from an undefined response, or when the error
\* field makes the method throw; otherwise the value returned.
tryBlock(op, response) ==
  IF response = "reject" THEN "threw"
  ELSE IF response = "error" THEN "threw"
  ELSE IF op = "popupGetStats"
    THEN (IF response = "undefined" THEN "defaultStats" ELSE "response")
  ELSE IF response = "undefined" THEN "threw"
  ELSE IF op \in {"get", "getStats"} THEN "result"
  ELSE "success"

\* The catch block of a proxy method.
catchBlock(op) ==
  IF op \in {"get", "getStats"} THEN "null"
  ELSE IF op \in {"set", "clear"} THEN "false"
  ELSE "errorStats"

\* Variant of proxyResult for methods written without try/catch.
proxyResultNoCatch(op, response) == tryBlock(op, response)

\* What a proxy method gives its caller: the value it returns, or "threw".
proxyResult(op, response) ==
  IF tryBlock(op, response) = "threw" THEN catchBlock(op) ELSE tryBlock(op, response)

\* crypto.subtle.digest, with a one-byte digest standing in for SHA-256: the
\* sum of the bytes modulo 256 (different contents can collide).
RECURSIVE digest(_)
digest(data) == IF data = <<>> THEN 0 ELSE (Head(data) + digest(Tail(data))) % 256

HexDigits == <<"0", "1", "2", "3", "4", "5", "6", "7", "8", "9", "a", "b", "c", "d", "e", "f">>

\* b.toString(16).padStart(2, '0')
hex(b) == <<HexDigits[(b \div 16) + 1], HexDigits[(b % 16) + 1]>>

\* calculateHash(text): the digest in hexadecimal.
calculateHash(text) == hex(digest(text))

\* Variant of generateKey that leaves the kind out of the key.
generateKeyHashOnly(content, type) == calculateHash(content)

\* generateKey(content, type): `${hash}_${type}`
generateKey(content, type) == calculateHash(content) \o <<"_", type>>

CallsMade == Len(cacheLog) + Len(keyLog)

\* A caller invokes a proxy method: the message is sent.
CallProxy(op) ==
  /\ cachePending = NoCall
  /\ CallsMade < MaxCalls
  /\ cachePending' = [op |-> op, content |-> <<>>, type |-> ""]
  /\ UNCHANGED <<cacheLog, keyLog, coreVars, sanVars, passVars, printVars, zoomVars, pageVars>>

\* The message settles and the method returns to its caller.
MessageSettles(response) ==
  /\ cachePending.op \in MessageOps
  /\ cacheLog' = Append(cacheLog, [op |-> cachePending.op, response |-> response,
                                    result |-> proxyResult(cachePending.op, response)])
  /\ cachePending' = NoCall
  /\ UNCHANGED <<keyLog, coreVars, sanVars, passVars, printVars, zoomVars, pageVars>>

\* A caller invokes generateKey(content, type): the digest is requested.
CallGenerateKey(content, type) ==
  /\ cachePending = NoCall
  /\ CallsMade < MaxCalls
  /\ cachePending' = [op |-> "generateKey", content |-> content, type |-> type]
  /\ UNCHANGED <<cacheLog, keyLog, coreVars, sanVars, passVars, printVars, zoomVars, pageVars>>

\* The digest resolves and generateKey returns the key.
DigestResolves ==
  /\ cachePending.op = "generateKey"
  /\ keyLog' = Append(keyLog, [content |-> cachePending.content, type |-> cachePending.type,
                                key |-> generateKey(cachePending.content, cachePending.type)])
  /\ cachePending' = NoCall
  /\ UNCHANGED <<cacheLog, coreVars, sanVars, passVars, printVars, zoomVars, pageVars>>

CacheInit == ContentIdle /\ SideIdle

CacheNext ==
  \/ \E op \in MessageOps : CallProxy(op)
  \/ \E response \in Responses : MessageSettles(response)
  \/ \E content \in Contents, type \in KeyTypes : CallGenerateKey(content, type)
  \/ DigestResolves

\* The cache proxies under any sequence of calls and storage-layer outcomes.
CacheSpec == CacheInit /\ [][CacheNext]_vars

(* ---------------------------------------------------------------------- *)
(* The print page                                                          *)
(* ---------------------------------------------------------------------- *)

\* Largest payload.length a job response announces.
MaxTotalLength == 2

\* Longest chunk a chunk response carries.
MaxChunkLength == 1

\* Largest number of images of the job that are not complete when rendered.
MaxImages == 2

\* params.get('token')
Tokens == {"null", "t"}

\* What the job request can settle with: a rejection, a missing or
\* unsuccessful response, a successful response.
JobResponses == {"reject", "fail", "ok"}

\* fetchResponse.nextOffset: a number, or -1 when the field is not a number.
NextOffsets == -1..(MaxTotalLength + 1)

\* showError(message)
showError(message) == errorMessage' = message

\* Variant of finishPrint without the cleanedUp guard.
finishPrintUnguarded(reason) ==
  /\ cleanedUp' = TRUE
  /\ fallbackTimer' = "null"
  /\ IF token # "null"
       THEN /\ completeMsgs' = Append(completeMsgs, reason)
            /\ finishPc' = "sending"
            /\ UNCHANGED windowClosed
       ELSE /\ windowClosed' = TRUE
            /\ finishPc' = "closed"
            /\ UNCHANGED completeMsgs

\* finishPrint(reason) up to its await: returns at once when the job is
\* already cleaned up; otherwise marks it, clears the fallback timer and
\* sends PRINT_JOB_COMPLETE (without a token it goes on to window.close()).
finishPrint(reason) ==
  IF cleanedUp
    THEN UNCHANGED <<cleanedUp, fallbackTimer, completeMsgs, finishPc, windowClosed>>
    ELSE /\ cleanedUp' = TRUE
         /\ fallbackTimer' = "null"
         /\ IF token # "null"
              THEN /\ completeMsgs' = Append(completeMsgs, reason)
                   /\ finishPc' = "sending"
                   /\ UNCHANGED windowClosed
              ELSE /\ windowClosed' = TRUE
                   /\ finishPc' = "closed"
                   /\ UNCHANGED completeMsgs

\* The end of renderAndPrint, after waitForImages has resolved: window.print
\* is deferred by a zero timeout and the fallback timer is armed.
armTimers ==
  /\ printTimer' = TRUE
  /\ fallbackTimer' = "pending"
  /\ printPc' = "returned"
  /\ UNCHANGED <<cleanedUp, completeMsgs, finishPc, windowClosed>>

\* renderAndPrint(job) up to its await: without a root element it reports
\* and finishes; otherwise it renders the job and waits for the n images
\* that are not complete (with none, the wait resolves within the same task).
renderAndPrint(n) ==
  IF ~hasRoot
    THEN /\ showError("Missing print root element")
         /\ finishPrint("missing-root")
         /\ printPc' = "returned"
         /\ UNCHANGED <<rootContent, jobImages, images, printTimer>>
    ELSE /\ rootContent' = "job"
         /\ jobImages' = n
         /\ images' = n
         /\ UNCHANGED errorMessage
         /\ IF n = 0
              THEN armTimers
              ELSE /\ printPc' = "images"
                   /\ UNCHANGED <<printTimer, fallbackTimer, cleanedUp, completeMsgs,
                                  finishPc, windowClosed>>

\* Variant of nextChunkOffset that takes the response's offset as it comes.
nextChunkOffsetTrusting(off, total, chunkLength, nextOffset) ==
  IF nextOffset # -1 THEN nextOffset ELSE off + chunkLength

\* The offset of the next iteration of the chunk loop.
nextChunkOffset(off, total, chunkLength, nextOffset) ==
  LET next == IF nextOffset # -1 THEN nextOffset ELSE off + chunkLength
  IN  IF chunkLength = 0 \/ next <= off THEN total ELSE next

\* requestAndRender starts: without a token it reports and returns,
\* otherwise it sends PRINT_JOB_REQUEST.
RequestJob ==
  /\ ~windowClosed
  /\ printPc = "start"
  /\ IF token = "null"
       THEN showError("Missing print job token") /\ printPc' = "returned"
       ELSE printPc' = "jobRequest" /\ UNCHANGED errorMessage
  /\ UNCHANGED <<token, hasRoot, cleanedUp, fallbackTimer, printTimer, printCalls, dialog,
                 completeMsgs, finishPc, windowClosed, totalLength, offset,
                 chunkRequests, chunks, images, rootContent, jobImages>>
  /\ UNCHANGED <<coreVars, sanVars, passVars, cacheVars, zoomVars, pageVars>>

\* Variant of JobResponse without the return after an unsuccessful response:
\* the error is shown, finishPrint is called, and the empty payload is
\* rendered all the same.
JobResponseFallsThrough(response, length, n) ==
  /\ ~windowClosed
  /\ printPc = "jobRequest"
  /\ CASE response = "reject" ->
            /\ showError("Unable to request print job.")
            /\ finishPrint("request-error")
            /\ printPc' = "returned"
            /\ UNCHANGED <<totalLength, offset, chunkRequests, images, rootContent, jobImages, printTimer>>
       [] response = "fail" ->
            /\ showError("Failed to load print job")
            /\ finishPrint("job-error")
            /\ rootContent' = "job"
            /\ jobImages' = n
            /\ images' = n
            /\ printPc' = IF n = 0 THEN "returned" ELSE "images"
            /\ printTimer' = (n = 0)
            /\ UNCHANGED <<totalLength, offset, chunkRequests>>
       [] OTHER ->
            /\ totalLength' = length
            /\ offset' = 0
            /\ IF 0 < length
                 THEN /\ chunkRequests' = Append(chunkRequests, 0)
                      /\ printPc' = "chunkFetch"
                      /\ UNCHANGED <<errorMessage, cleanedUp, fallbackTimer, completeMsgs,
                                     finishPc, windowClosed, images, rootContent, jobImages, printTimer>>
                 ELSE /\ renderAndPrint(n)
                      /\ UNCHANGED chunkRequests
  /\ UNCHANGED <<token, hasRoot, printCalls, dialog, chunks>>
  /\ UNCHANGED <<coreVars, sanVars, passVars, cacheVars, zoomVars, pageVars>>

\* The job request settles.
JobResponse(response, length, n) ==
  /\ ~windowClosed
  /\ printPc = "jobRequest"
  /\ CASE response = "reject" ->
            /\ showError("Unable to request print job.")
            /\ finishPrint("request-error")
            /\ printPc' = "returned"
            /\ UNCHANGED <<totalLength, offset, chunkRequests, images, rootContent, jobImages, printTimer>>
       [] response = "fail" ->
            /\ showError("Failed to load print job")
            /\ finishPrint("job-error")
            /\ printPc' = "returned"
            /\ UNCHANGED <<totalLength, offset, chunkRequests, images, rootContent, jobImages, printTimer>>
       [] OTHER ->
            /\ totalLength' = length
            /\ offset' = 0
            /\ IF 0 < length
                 THEN /\ chunkRequests' = Append(chunkRequests, 0)
                      /\ printPc' = "chunkFetch"
                      /\ UNCHANGED <<errorMessage, cleanedUp, fallbackTimer, completeMsgs,
                                     finishPc, windowClosed, images, rootContent, jobImages, printTimer>>
                 ELSE /\ renderAndPrint(n)
                      /\ UNCHANGED chunkRequests
  /\ UNCHANGED <<token, hasRoot, printCalls, dialog, chunks>>
  /\ UNCHANGED <<coreVars, sanVars, passVars, cacheVars, zoomVars, pageVars>>

\* A chunk request settles.
ChunkResponse(response, chunkLength, nextOffset, n) ==
  /\ ~windowClosed
  /\ printPc = "chunkFetch"
  /\ CASE response = "reject" ->
            /\ showError("Unable to request print job.")
            /\ finishPrint("request-error")
            /\ printPc' = "returned"
            /\ UNCHANGED <<offset, chunkRequests, chunks, images, rootContent, jobImages, printTimer>>
       [] response = "fail" ->
            /\ showError("Failed to retrieve print data")
            /\ finishPrint("chunk-error")
            /\ printPc' = "returned"
            /\ UNCHANGED <<offset, chunkRequests, chunks, images, rootContent, jobImages, printTimer>>
       [] OTHER ->
            /\ chunks' = chunks + 1
            /\ offset' = nextChunkOffset(offset, totalLength, chunkLength, nextOffset)
            /\ IF offset' < totalLength
                 THEN /\ chunkRequests' = Append(chunkRequests, offset')
                      /\ UNCHANGED <<printPc, errorMessage, cleanedUp, fallbackTimer,
                                     completeMsgs, finishPc, windowClosed, images,
                                     rootContent, jobImages, printTimer>>
                 ELSE /\ renderAndPrint(n)
                      /\ UNCHANGED chunkRequests
  /\ UNCHANGED <<token, hasRoot, printCalls, dialog, totalLength>>
  /\ UNCHANGED <<coreVars, sanVars, passVars, cacheVars, zoomVars, pageVars>>

\* An image of the job fires load or error; with the last one waitForImages
\* resolves and renderAndPrint runs to its end.
ImageSettles ==
  /\ ~windowClosed
  /\ printPc = "images"
  /\ images > 0
  /\ images' = images - 1
  /\ IF images' = 0
       THEN armTimers
       ELSE UNCHANGED <<printPc, printTimer, fallbackTimer, cleanedUp, completeMsgs,
                        finishPc, windowClosed>>
  /\ UNCHANGED <<token, hasRoot, printCalls, dialog, totalLength, offset, chunkRequests,
                 chunks, rootContent, jobImages, errorMessage>>
  /\ UNCHANGED <<coreVars, sanVars, passVars, cacheVars, zoomVars, pageVars>>

\* The zero timeout fires: window.print() opens the print dialog.
PrintTimerFires ==
  /\ ~windowClosed
  /\ printTimer
  /\ printTimer' = FALSE
  /\ printCalls' = printCalls + 1
  /\ dialog' = "open"
  /\ UNCHANGED <<token, hasRoot, printPc, cleanedUp, fallbackTimer, completeMsgs, finishPc,
                 windowClosed, totalLength, offset, chunkRequests, chunks, images,
                 rootContent, jobImages, errorMessage>>
  /\ UNCHANGED <<coreVars, sanVars, passVars, cacheVars, zoomVars, pageVars>>

\* The fallback timer fires after 120 s.
FallbackFires ==
  /\ ~windowClosed
  /\ fallbackTimer = "pending"
  /\ IF cleanedUp
       THEN fallbackTimer' = "fired" /\ UNCHANGED <<cleanedUp, completeMsgs, finishPc, windowClosed>>
       ELSE finishPrint("timeout")
  /\ UNCHANGED <<token, hasRoot, printPc, printTimer, printCalls, dialog, totalLength, offset,
                 chunkRequests, chunks, images, rootContent, jobImages, errorMessage>>
  /\ UNCHANGED <<coreVars, sanVars, passVars, cacheVars, zoomVars, pageVars>>

\* The print dialog is dismissed: the afterprint listener runs.
AfterPrint ==
  /\ ~windowClosed
  /\ dialog = "open"
  /\ dialog' = "closed"
  /\ finishPrint("afterprint")
  /\ UNCHANGED <<token, hasRoot, printPc, printTimer, printCalls, totalLength, offset,
                 chunkRequests, chunks, images, rootContent, jobImages, errorMessage>>
  /\ UNCHANGED <<coreVars, sanVars, passVars, cacheVars, zoomVars, pageVars>>

\* The user presses Escape: the keydown listener runs. (The listeners are
\* installed and requestAndRender is called within the same script run, so
\* no event precedes the request.)
Escape ==
  /\ ~windowClosed
  /\ printPc # "start"
  /\ finishPrint("escape")
  /\ UNCHANGED <<token, hasRoot, printPc, printTimer, printCalls, dialog, totalLength, offset,
                 chunkRequests, chunks, images, rootContent, jobImages, errorMessage>>
  /\ UNCHANGED <<coreVars, sanVars, passVars, cacheVars, zoomVars, pageVars>>

\* The PRINT_JOB_COMPLETE message of finishPrint settles (a rejection is
\* caught and logged) and finishPrint closes the window; the beforeunload
\* listener finds the job cleaned up.
FinishSettles ==
  /\ ~windowClosed
  /\ finishPc = "sending"
  /\ finishPc' = "closed"
  /\ windowClosed' = TRUE
  /\ UNCHANGED <<token, hasRoot, printPc, cleanedUp, fallbackTimer, printTimer, printCalls,
                 dialog, completeMsgs, totalLength, offset, chunkRequests, chunks, images,
                 rootContent, jobImages, errorMessage>>
  /\ UNCHANGED <<coreVars, sanVars, passVars, cacheVars, zoomVars, pageVars>>

\* The user closes the tab: the beforeunload listener runs and the page goes.
\* (The listeners are
\* installed and requestAndRender is called within the same script run, so
\* no event precedes the request.)
BeforeUnload ==
  /\ ~windowClosed
  /\ printPc # "start"
  /\ windowClosed' = TRUE
  /\ IF cleanedUp
       THEN UNCHANGED <<cleanedUp, fallbackTimer, completeMsgs>>
       ELSE /\ cleanedUp' = TRUE
            /\ fallbackTimer' = "null"
            /\ completeMsgs' = IF token # "null" THEN Append(completeMsgs, "beforeunload")
                                                 ELSE completeMsgs
  /\ UNCHANGED <<token, hasRoot, printPc, printTimer, printCalls, dialog, finishPc, totalLength,
                 offset, chunkRequests, chunks, images, rootContent, jobImages, errorMessage>>
  /\ UNCHANGED <<coreVars, sanVars, passVars, cacheVars, zoomVars, pageVars>>

\* The print page when its script starts.
PrintInit ==
  /\ ContentIdle
  /\ CacheIdle
  /\ ZoomIdle
  /\ LocIdle
  /\ StoreIdle
  /\ DocxIdle
  /\ PrintStart
  /\ token \in Tokens
  /\ hasRoot \in BOOLEAN

\* What the background page and the timers do.
PrintProgress ==
  \/ RequestJob
  \/ \E response \in JobResponses, length \in 0..MaxTotalLength, n \in 0..MaxImages :
       JobResponse(response, length, n)
  \/ \E response \in JobResponses, chunkLength \in 0..MaxChunkLength,
        nextOffset \in NextOffsets, n \in 0..MaxImages :
       ChunkResponse(response, chunkLength, nextOffset, n)
  \/ PrintTimerFires
  \/ FallbackFires
  \/ FinishSettles

\* What the images and the user do, or never do.
PrintEvents ==
  \/ ImageSettles
  \/ AfterPrint
  \/ Escape
  \/ BeforeUnload

PrintNext == PrintProgress \/ PrintEvents

\* The print page under any interleaving of responses, timers and events.
PrintSpec == PrintInit /\ [][PrintNext]_vars

\* The same, where every response arrives and every armed timer fires;
\* nothing obliges an image to settle or the user to act.
PrintFairSpec == PrintSpec /\ WF_vars(PrintProgress)

(* ---------------------------------------------------------------------- *)
(* Zoom and layout of the viewer page                                      *)
(* ---------------------------------------------------------------------- *)

MinZoom == 50

MaxZoom == 400

\* The step of the zoom-in and zoom-out buttons.
ZoomStep == 10

\* The zoom of a page without saved state, of the reset and of the normal
\* and narrow layouts.
DefaultZoom == 100

\* The automatic zoom of the wide and fullscreen layouts on a wide window.
WideZoom == 200

Min(a, b) == IF a < b THEN a ELSE b
Max(a, b) == IF a > b THEN a ELSE b

\* Variant of updateZoom that takes the requested level as it is.
updateZoomUnclamped(newLevel) == newLevel

\* updateZoom(newLevel, saveState): the level it assigns to zoomLevel, shows
\* in the toolbar and applies to the content.
updateZoom(newLevel) == Max(MinZoom, Min(MaxZoom, newLevel))

\* getLayoutSequence()
getLayoutSequence(wide) ==
  IF wide THEN <<"normal", "wide", "fullscreen", "narrow">>
          ELSE <<"normal", "fullscreen", "narrow">>

\* The layout the toggle button switches to.
nextLayout(layout, wide) ==
  LET sequence == getLayoutSequence(wide)
  IN  IF layout \notin Range(sequence) THEN sequence[1]
      ELSE sequence[(IndexOf(sequence, layout) % Len(sequence)) + 1]

\* The automatic zoom of applyLayout for a layout, 0 when it has none.
autoZoomOf(layout, wide) ==
  IF wide /\ layout \in {"wide", "fullscreen"} THEN WideZoom
  ELSE IF layout \in {"normal", "narrow"} THEN DefaultZoom
  ELSE 0

\* applyLayout(layout) as the toggle button and the resize listener call it,
\* saving the state and adjusting the zoom.
applyLayout(layout) ==
  /\ currentLayout' = layout
  /\ savedLayoutMode' = layout
  /\ IF autoZoomOf(layout, wideAvailable') # 0
       THEN /\ zoomLevel' = updateZoom(autoZoomOf(layout, wideAvailable'))
            /\ styleZoom' = zoomLevel'
            /\ savedZoom' = autoZoomOf(layout, wideAvailable')
       ELSE UNCHANGED <<zoomLevel, styleZoom, savedZoom>>

\* The page is loaded (or loaded again): the file state is fetched (got is
\* false when the message fails or nothing was saved for the file) and the
\* page is laid out with the saved zoom, or 100.
LoadPage(got, wide) ==
  /\ zoomPc \in {"unloaded", "ready"}
  /\ zoomPc' = "built"
  /\ wideAvailable' = wide
  /\ styleZoom' = IF got /\ savedZoom # 0 THEN savedZoom ELSE DefaultZoom
  /\ zoomLevel' = DefaultZoom
  /\ currentLayout' = "normal"
  /\ UNCHANGED <<savedZoom, savedLayoutMode>>
  /\ UNCHANGED <<coreVars, sanVars, passVars, cacheVars, printVars, pageVars>>

\* setupToolbarButtons: fetches the file state, installs the listeners,
\* applies the normal layout and restores the saved layout and zoom.
SetupToolbarButtons(got) ==
  /\ zoomPc = "built"
  /\ zoomPc' = "ready"
  /\ currentLayout' = IF got /\ savedLayoutMode # "" THEN savedLayoutMode ELSE "normal"
  /\ IF got /\ savedZoom # 0
       THEN zoomLevel' = updateZoom(savedZoom) /\ styleZoom' = zoomLevel'
       ELSE zoomLevel' = DefaultZoom /\ UNCHANGED styleZoom
  /\ UNCHANGED <<wideAvailable, savedZoom, savedLayoutMode>>
  /\ UNCHANGED <<coreVars, sanVars, passVars, cacheVars, printVars, pageVars>>

\* updateZoom(newLevel) as the zoom controls call it, saving the level.
ClickZoom(newLevel) ==
  /\ zoomLevel' = updateZoom(newLevel)
  /\ styleZoom' = zoomLevel'
  /\ savedZoom' = zoomLevel'
  /\ UNCHANGED <<zoomPc, currentLayout, wideAvailable, savedLayoutMode>>
  /\ UNCHANGED <<coreVars, sanVars, passVars, cacheVars, printVars, pageVars>>

\* The zoom-in button is clicked.
ZoomIn ==
  /\ zoomPc = "ready"
  /\ ClickZoom(zoomLevel + ZoomStep)

\* The zoom-out button is clicked.
ZoomOut ==
  /\ zoomPc = "ready"
  /\ ClickZoom(zoomLevel - ZoomStep)

\* The zoom level of the toolbar is clicked.
ResetZoom ==
  /\ zoomPc = "ready"
  /\ ClickZoom(DefaultZoom)

\* The layout button is clicked.
ClickLayout ==
  /\ zoomPc = "ready"
  /\ UNCHANGED wideAvailable
  /\ applyLayout(nextLayout(currentLayout, wideAvailable))
  /\ UNCHANGED zoomPc
  /\ UNCHANGED <<coreVars, sanVars, passVars, cacheVars, printVars, pageVars>>

\* The window is resized: the wide layout falls back to fullscreen when the
\* window is no longer wide enough.
Resize(wide) ==
  /\ zoomPc = "ready"
  /\ wideAvailable' = wide
  /\ IF currentLayout = "wide" /\ ~wide
       THEN applyLayout("fullscreen")
       ELSE UNCHANGED <<currentLayout, savedLayoutMode, zoomLevel, styleZoom, savedZoom>>
  /\ UNCHANGED zoomPc
  /\ UNCHANGED <<coreVars, sanVars, passVars, cacheVars, printVars, pageVars>>

ZoomInit == ContentIdle /\ SideIdle

ZoomNext ==
  \/ \E got \in BOOLEAN, wide \in BOOLEAN : LoadPage(got, wide)
  \/ \E got \in BOOLEAN : SetupToolbarButtons(got)
  \/ ZoomIn
  \/ ZoomOut
  \/ ResetZoom
  \/ ClickLayout
  \/ \E wide \in BOOLEAN : Resize(wide)

\* The viewer page under any sequence of loads, zoom and layout clicks and
\* resizes.
ZoomSpec == ZoomInit /\ [][ZoomNext]_vars

(* ---------------------------------------------------------------------- *)
(* Localization                                                            *)
(* ---------------------------------------------------------------------- *)

\* Largest number of init calls in a run.
MaxInitCalls == 2

\* Largest number of locale loads asked for through setPreferredLocale.
MaxSetLoads == 2

\* The stored or requested locale settings ("auto" = DEFAULT_SETTING_LOCALE).
PreferredLocales == {"auto", "fr", "de"}

\* Everything but the objects of this section and of the two that follow.
restVars == <<coreVars, sanVars, passVars, cacheVars, printVars, zoomVars>>

\* Variant of Boolean for a ready flag set without looking at the messages.
BooleanTrue(value) == TRUE

\* Boolean(this.messages)
Boolean(value) == value # "null"

\* Variant of InitCall without the test of loadingPromise.
InitCallUnguarded ==
  /\ Len(initReturns) < MaxInitCalls
  /\ loadingPromise' = Len(initReturns) + 1
  /\ storageReads' = storageReads + 1
  /\ initPc' = "storage"
  /\ initReturns' = Append(initReturns, loadingPromise')
  /\ UNCHANGED <<messages, ready, locale, loads>>
  /\ UNCHANGED <<restVars, storeVars, docxVars>>

\* init(): returns the loading promise when there is one; otherwise creates
\* it, its body running up to `await this.getStorageSettings()`.
InitCall ==
  /\ Len(initReturns) < MaxInitCalls
  /\ IF loadingPromise # 0
       THEN UNCHANGED <<loadingPromise, storageReads, initPc>>
       ELSE /\ loadingPromise' = Len(initReturns) + 1
            /\ storageReads' = storageReads + 1
            /\ initPc' = "storage"
  /\ initReturns' = Append(initReturns, loadingPromise')
  /\ UNCHANGED <<messages, ready, locale, loads>>
  /\ UNCHANGED <<restVars, storeVars, docxVars>>

\* getStorageSettings settles inside init: with a rejection ("reject") or
\* with the preferred locale ("auto" when nothing is stored).
StorageSettles(r) ==
  /\ initPc = "storage"
  /\ IF r \in {"reject", "auto"}
       THEN /\ locale' = IF r = "auto" THEN "auto" ELSE locale
            /\ ready' = Boolean(messages)
            /\ initPc' = "done"
            /\ UNCHANGED loads
       ELSE /\ loads' = Append(loads, [by |-> "init", locale |-> r, pc |-> "fetch"])
            /\ initPc' = "load"
            /\ UNCHANGED <<locale, ready>>
  /\ UNCHANGED <<messages, loadingPromise, storageReads, initReturns>>
  /\ UNCHANGED <<restVars, storeVars, docxVars>>

\* setPreferredLocale(locale) up to its await.
SetPreferredLocale(l) ==
  /\ IF l = "auto"
       THEN /\ messages' = "null"
            /\ ready' = FALSE
            /\ locale' = "auto"
            /\ UNCHANGED loads
       ELSE /\ Cardinality({i \in 1..Len(loads) : loads[i].by = "set"}) < MaxSetLoads
            /\ loads' = Append(loads, [by |-> "set", locale |-> l, pc |-> "fetch"])
            /\ UNCHANGED <<messages, ready, locale>>
  /\ UNCHANGED <<loadingPromise, initPc, storageReads, initReturns>>
  /\ UNCHANGED <<restVars, storeVars, docxVars>>

\* loadLocale(locale) settles: the messages are stored, or, when the fetch
\* or the parse failed, messages and ready are cleared.
LoadSettles(i, ok) ==
  /\ i \in 1..Len(loads)
  /\ loads[i].pc = "fetch"
  /\ messages' = IF ok THEN loads[i].locale ELSE "null"
  /\ ready' = IF ok THEN ready ELSE FALSE
  /\ loads' = [loads EXCEPT ![i].pc = "cont"]
  /\ UNCHANGED <<locale, loadingPromise, initPc, storageReads, initReturns>>
  /\ UNCHANGED <<restVars, storeVars, docxVars>>

\* The caller of loadLocale resumes: init (up to the end of its finally
\* block) or setPreferredLocale.
CallerResumes(i) ==
  /\ i \in 1..Len(loads)
  /\ loads[i].pc = "cont"
  /\ locale' = loads[i].locale
  /\ ready' = Boolean(messages)
  /\ loads' = [loads EXCEPT ![i].pc = "done"]
  /\ initPc' = IF loads[i].by = "init" THEN "done" ELSE initPc
  /\ UNCHANGED <<messages, loadingPromise, storageReads, initReturns>>
  /\ UNCHANGED <<restVars, storeVars, docxVars>>

LocInit == ContentIdle /\ SideIdle

LocNext ==
  \/ InitCall
  \/ \E r \in PreferredLocales \cup {"reject"} : StorageSettles(r)
  \/ \E l \in PreferredLocales : SetPreferredLocale(l)
  \/ \E i \in 1..Len(loads), ok \in BOOLEAN : LoadSettles(i, ok)
  \/ \E i \in 1..Len(loads) : CallerResumes(i)

\* The Localization object under any interleaving of init and
\* setPreferredLocale calls and any outcome of the loads.
LocSpec == LocInit /\ [][LocNext]_vars

(* ---------------------------------------------------------------------- *)
(* Document history                                                        *)
(* ---------------------------------------------------------------------- *)

\* Largest number of saveToHistory calls in a run.
MaxSaves == 2

\* filteredHistory.slice(0, 100)
HistoryLimit == 100

\* The documents opened: the first and the last of a full stored history,
\* and two that are not in it.
DocUrls == {1, HistoryLimit, HistoryLimit + 1, HistoryLimit + 2}

\* The histories found in storage when the page loads: none, one entry short
\* of the limit, and full. An entry is represented by its url.
StoredHistories ==
  {<<>>, [i \in 1..(HistoryLimit - 1) |-> i], [i \in 1..HistoryLimit |-> i]}

\* Variant of trimmedHistory that keeps the existing entry of the url.
trimmedHistoryUnfiltered(history, url) ==
  LET filteredHistory == <<url>> \o history
  IN  SubSeq(filteredHistory, 1, Min(HistoryLimit, Len(filteredHistory)))

\* The array saveToHistory writes: the entries of other urls, the new entry
\* in front, cut to the limit.
trimmedHistory(history, url) ==
  LET filteredHistory == <<url>> \o SelectSeq(history, LAMBDA item : item # url)
  IN  SubSeq(filteredHistory, 1, Min(HistoryLimit, Len(filteredHistory)))

\* saveToHistory() up to `await chrome.storage.local.get`.
SaveToHistory(url) ==
  /\ Len(saves) < MaxSaves
  /\ saves' = Append(saves, [url |-> url, pc |-> "get", history |-> <<>>])
  /\ UNCHANGED markdownHistory
  /\ UNCHANGED <<restVars, locVars, docxVars>>

\* The read settles: the new array is built and the write is requested, or
\* the rejection is caught.
GetSettles(i, ok) ==
  /\ i \in 1..Len(saves)
  /\ saves[i].pc = "get"
  /\ saves' = IF ok
                THEN [saves EXCEPT ![i].pc = "set",
                                   ![i].history = trimmedHistory(markdownHistory, saves[i].url)]
                ELSE [saves EXCEPT ![i].pc = "failed"]
  /\ UNCHANGED markdownHistory
  /\ UNCHANGED <<restVars, locVars, docxVars>>

\* The write settles: the array is stored, or the rejection is caught.
SetSettles(i, ok) ==
  /\ i \in 1..Len(saves)
  /\ saves[i].pc = "set"
  /\ markdownHistory' = IF ok THEN saves[i].history ELSE markdownHistory
  /\ saves' = [saves EXCEPT ![i].pc = IF ok THEN "done" ELSE "failed"]
  /\ UNCHANGED <<restVars, locVars, docxVars>>

StoreInit ==
  /\ ContentIdle /\ CacheIdle /\ PrintIdle /\ ZoomIdle /\ LocIdle /\ DocxIdle
  /\ markdownHistory \in StoredHistories
  /\ saves = <<>>

StoreNext ==
  \/ \E url \in DocUrls : SaveToHistory(url)
  \/ \E i \in 1..Len(saves), ok \in BOOLEAN : GetSettles(i, ok)
  \/ \E i \in 1..Len(saves), ok \in BOOLEAN : SetSettles(i, ok)

\* The stored history under any sequence of saves, overlapping or not.
StoreSpec == StoreInit /\ [][StoreNext]_vars

(* ---------------------------------------------------------------------- *)
(* DOCX export                                                             *)
(* ---------------------------------------------------------------------- *)

\* Largest number of exports started in a run.
MaxExports == 3

\* Largest number of progress reports of one export.
MaxProgress == 2

\* How exportToDocx ends: { success: true }, { success: false } or a
\* rejection.
ExportOutcomes == {"success", "failure", "reject"}

\* The export in flight that settles next.
pendingExport ==
  CHOOSE i \in 1..Len(exportLog) :
    /\ exportLog[i].outcome = "pending"
    /\ \A j \in 1..(i - 1) : exportLog[j].outcome # "pending"

\* The click listener of the download button, up to `await exportToDocx`.
clickListener(by) ==
  IF downloadDisabled
    THEN UNCHANGED docxVars
    ELSE /\ downloadDisabled' = TRUE
         /\ exportsInFlight' = exportsInFlight + 1
         /\ exportProgress' = 0
         /\ exportLog' = Append(exportLog, [by |-> by, outcome |-> "pending"])

\* The user clicks the download button.
ClickDownload ==
  /\ Len(exportLog) < MaxExports
  /\ clickListener("click")
  /\ UNCHANGED <<restVars, locVars, storeVars>>

\* The user presses Ctrl/Cmd+S.
CtrlS ==
  /\ Len(exportLog) < MaxExports
  /\ IF ~downloadDisabled THEN clickListener("ctrl-s") ELSE UNCHANGED docxVars
  /\ UNCHANGED <<restVars, locVars, storeVars>>

\* The exporter reports progress: the progress circle is updated.
ExportProgress ==
  /\ exportsInFlight > 0
  /\ exportProgress < MaxProgress
  /\ exportProgress' = exportProgress + 1
  /\ UNCHANGED <<downloadDisabled, exportsInFlight, exportLog>>
  /\ UNCHANGED <<restVars, locVars, storeVars>>

\* Variant of ExportSettles whose catch block leaves the button as it is.
ExportSettlesNoRestore(outcome) ==
  /\ exportsInFlight > 0
  /\ exportsInFlight' = exportsInFlight - 1
  /\ exportLog' = [exportLog EXCEPT ![pendingExport].outcome = outcome]
  /\ downloadDisabled' = IF outcome = "success" THEN FALSE ELSE downloadDisabled
  /\ UNCHANGED exportProgress
  /\ UNCHANGED <<restVars, locVars, storeVars>>

\* exportToDocx settles: the button is restored after the download, or the
\* error is reported and the button is restored in the catch block.
ExportSettles(outcome) ==
  /\ exportsInFlight > 0
  /\ exportsInFlight' = exportsInFlight - 1
  /\ exportLog' = [exportLog EXCEPT ![pendingExport].outcome = outcome]
  /\ downloadDisabled' = FALSE
  /\ UNCHANGED exportProgress
  /\ UNCHANGED <<restVars, locVars, storeVars>>

DocxInit == ContentIdle /\ SideIdle

DocxNext ==
  \/ ClickDownload
  \/ CtrlS
  \/ ExportProgress
  \/ \E outcome \in ExportOutcomes : ExportSettles(outcome)

\* The download button under any sequence of clicks, shortcuts and export
\* outcomes.
DocxSpec == DocxInit /\ [][DocxNext]_vars

(* ---------------------------------------------------------------------- *)
(* Properties of the scheduler                                             *)
(* ---------------------------------------------------------------------- *)

Drainable(id) == tasks[id].status \in {"ready", "error"}

\* A step that splices a task out of the queue, and the task it removes.
Removes == Len(asyncTaskQueue') < Len(asyncTaskQueue)

Removed == CHOOSE id \in Range(asyncTaskQueue) : id \notin Range(asyncTaskQueue')

\* C1: a task whose status is 'fetching' is never drained: the task a step
\* removes from the queue is ready or error at that moment, also when tasks
\* that are still fetching stand before it in the queue.
C1_FetchingNeverDrained ==
  [][Removes => /\ Drainable(Removed)
                /\ tasks'[Removed].status \in {"ready", "error"}
                /\ CopiesIn(Removed, removed') = CopiesIn(Removed, removed) + 1]_vars

\* C1 witness: a ready task is being drained while a task registered before it
\* is still fetching at the head of the queue.
C1_Witness ==
  /\ pc = "callback"
  /\ Len(asyncTaskQueue) > 0
  /\ tasks[asyncTaskQueue[1]].status = "fetching"
  /\ asyncTaskQueue[1] < task

Started == pc # "idle" /\ totalTasks > 0

\* C3: under FairSpec (every retrieval settles, every callback returns, every
\* timer fires) a drain pass over a non-empty queue terminates with the queue
\* empty, completed equal to total and the progress indicator hidden.
C3_DrainTerminates ==
  (pc = "loop") ~> (/\ pc = "done"
                    /\ Len(asyncTaskQueue) = 0
                    /\ completedTasks = totalTasks
                    /\ indicator = "hidden")

\* C3 witness: a pass over at least two tasks, one of them created fetching,
\* has terminated.
C3_Witness ==
  /\ pc = "done"
  /\ totalTasks >= 2
  /\ \E id \in 1..Len(tasks) : fetchSt[id] = "settled"
  /\ completedTasks = totalTasks
  /\ indicator = "hidden"

ErrorBlocks == {"taskError", "callbackError", "catchError"}

\* The element now standing where the placeholder of a task was injected.
ElementOf(id) == contentDiv.el[tasks[id].pos]

\* C4: a callback that throws or rejects does not stop the loop.  The failing
\* task is counted as completed, its placeholder is replaced by the inline
\* error report of the catch block, and the pass goes on: when it ends every
\* task has been drained and counted.
C4_FailureIsolation ==
  /\ \A id \in BagToSet(rejected) :
       /\ contentDiv.state = "html"
       /\ ElementOf(id) = "catchError"
       /\ CopiesIn(id, reports) = 1
  /\ Started =>
       completedTasks = BagCardinality(removed) - (IF pc = "callback" THEN 1 ELSE 0)
  /\ (pc = "done" /\ Started) =>
       /\ Len(asyncTaskQueue) = 0
       /\ BagToSet(removed) = 1..Len(tasks)
       /\ completedTasks = totalTasks

\* C4 witness: the first task of a pass threw, and the pass ended with a later
\* task drained as well and both counted.
C4_Witness ==
  /\ pc = "done"
  /\ totalTasks >= 2
  /\ completedTasks = totalTasks
  /\ \E id \in BagToSet(rejected) : \E other \in BagToSet(removed) : id < other

\* C5: when the render and the drain pass have ended, no placeholder element
\* remains in the live document: every placeholder that was injected has been
\* replaced, at its position, by an image element or by an inline error block.
C5_NoPlaceholderRemains ==
  pc = "done" =>
    /\ \A p \in 1..Len(contentDiv.el) : contentDiv.el[p] # "placeholder"
    /\ contentDiv.state = "html" =>
         \A id \in 1..Len(tasks) :
           /\ markup[tasks[id].pos] = id
           /\ ElementOf(id) \in {"image"} \cup ErrorBlocks

\* C5 witness: a pass has ended with an image at one position and an error
\* block at another.
C5_Witness ==
  /\ pc = "done"
  /\ contentDiv.state = "html"
  /\ \E p, q \in 1..Len(contentDiv.el) :
       contentDiv.el[p] = "image" /\ contentDiv.el[q] \in ErrorBlocks

\* C6: every registered task is removed from the queue exactly once; its
\* callback and its error report are executed at most once; a task is in the
\* queue or has been removed, never both, and none is queued when the pass ends.
C6_DrainedExactlyOnce ==
  /\ NoDuplicates(asyncTaskQueue)
  /\ \A id \in 1..Len(tasks) :
       /\ CopiesIn(id, removed) <= 1
       /\ CopiesIn(id, callbackRuns) <= 1
       /\ CopiesIn(id, reports) <= 1
       /\ CopiesIn(id, callbackRuns) <= CopiesIn(id, removed)
       /\ CopiesIn(id, reports) <= CopiesIn(id, removed)
       /\ renderPc \in {"inject", "toc", "done"} =>
            ((id \in Range(asyncTaskQueue)) <=> (CopiesIn(id, removed) = 0))
  /\ pc = "done" =>
       /\ Len(asyncTaskQueue) = 0
       /\ \A id \in 1..Len(tasks) : CopiesIn(id, removed) = 1

\* C6 witness: a pass has ended after draining a task by its callback and
\* another by the error report.
C6_Witness ==
  /\ pc = "done"
  /\ Len(asyncTaskQueue) = 0
  /\ \E a, b \in 1..Len(tasks) :
       /\ a # b
       /\ CopiesIn(a, callbackRuns) = 1
       /\ CopiesIn(b, reports) = 1 /\ CopiesIn(b, callbackRuns) = 0

\* C7: a task's status only moves fetching -> ready or fetching -> error, and
\* only while the task is still queued: a status that is ready or error never
\* changes again (so a task makes at most one transition, a task created ready
\* makes none), and a drained task keeps its status.
C7_StatusTransitions ==
  [][\A id \in 1..Len(tasks) :
       tasks'[id].status # tasks[id].status =>
         /\ tasks[id].status = "fetching"
         /\ tasks'[id].status \in {"ready", "error"}
         /\ fetchSt[id] # "none"
         /\ CopiesIn(id, removed) = 0
         /\ id \in Range(asyncTaskQueue)]_vars

\* C7 witness: of two tasks created fetching one became ready and was drained,
\* the other became error.
C7_Witness ==
  \E a, b \in 1..Len(tasks) :
    /\ fetchSt[a] = "settled" /\ tasks[a].status = "ready" /\ CopiesIn(a, removed) = 1
    /\ fetchSt[b] = "settled" /\ tasks[b].status = "error"

\* C8: a task drained in error state never had its callback invoked, so no
\* rasterization backend was called for it, and its placeholder (when it was
\* in the live document) has been replaced by the error report built from
\* task.error.
C8_ErrorDrainSkipsCallback ==
  \A id \in 1..Len(tasks) :
    (tasks[id].status = "error" /\ CopiesIn(id, removed) > 0) =>
      /\ CopiesIn(id, callbackRuns) = 0
      /\ CopiesIn(id, rendererCalls) = 0
      /\ contentDiv.state = "html" =>
           (ElementOf(id) = "taskError" /\ CopiesIn(id, reports) = 1)

\* C8 witness: a task in error state has been drained and its placeholder
\* shows the report.
C8_Witness ==
  \E id \in 1..Len(tasks) :
    /\ tasks[id].status = "error"
    /\ CopiesIn(id, removed) = 1
    /\ contentDiv.state = "html"
    /\ ElementOf(id) = "taskError"

AllQueuedFetching ==
  \A i \in 1..Len(asyncTaskQueue) : tasks[asyncTaskQueue[i]].status = "fetching"

SomeQueuedDrainable ==
  \E i \in 1..Len(asyncTaskQueue) : Drainable(asyncTaskQueue[i])

\* C9 as stated: the scheduler is never in its poll delay while a ready or
\* error task is queued.
C9_NeverIdlesWhileDrainable == pc = "sleep" => AllQueuedFetching

\* C9 amended: the scheduler starts a poll delay only when every queued task
\* is fetching at that moment, and a loop check that finds a ready or error
\* task removes one instead of waiting.  (A task that turns ready or error
\* during a delay stays queued until the timer fires.)
C9_WaitsOnlyWhenAllFetching ==
  [][/\ (pc # "sleep" /\ pc' = "sleep") =>
          (Len(asyncTaskQueue) > 0 /\ AllQueuedFetching)
     /\ (pc = "loop" /\ SomeQueuedDrainable /\ (pc' # pc \/ asyncTaskQueue' # asyncTaskQueue))
          => Removes]_vars

\* C9 witness: after a ready task was drained the scheduler waits on a queue
\* whose tasks are all fetching.
C9_Witness ==
  /\ pc = "sleep"
  /\ Len(asyncTaskQueue) > 0
  /\ AllQueuedFetching
  /\ BagCardinality(removed) >= 1

\* The task spliced out whose callback has not settled yet.
InFlight == IF pc = "callback" THEN 1 ELSE 0

\* C10 as stated: at every moment of a drain pass completed + queued = total.
C10_CountsBalanceThroughout ==
  Started => completedTasks + Len(asyncTaskQueue) = totalTasks

\* C10 amended: completed + queued = total at every loop check, poll and end
\* of a pass; while a callback is in flight its task is in neither count, so
\* completed + queued + 1 = total.  completed counts one per drained task,
\* success or failure, stays within 0..total, is what updateProgress was last
\* given, and updateProgress never divides by total = 0.
C10_ProgressAccounting ==
  /\ Started =>
       /\ completedTasks + Len(asyncTaskQueue) + InFlight = totalTasks
       /\ completedTasks = BagCardinality(removed) - InFlight
       /\ 0 <= completedTasks /\ completedTasks <= totalTasks
       /\ progress = updateProgress(completedTasks, totalTasks)
  /\ progress.computed => progress.total > 0
  /\ ~Started => ~progress.computed

\* C10 witness: one task has been counted and the callback of another is in
\* flight.
C10_Witness ==
  /\ pc = "callback"
  /\ completedTasks >= 1
  /\ completedTasks + Len(asyncTaskQueue) + 1 = totalTasks

\* A step that ends the draining of task id: its awaited callback settles, or
\* the loop iteration that found it in error state runs.
DrainEnds(id) ==
  \/ pc = "callback" /\ task = id /\ pc' # "callback"
  \/ pc = "loop" /\ Removes /\ Removed = id /\ tasks[id].status = "error"

\* C11: draining a task whose placeholder id is no longer in the live document
\* leaves the document unchanged, whether the callback succeeds, the
\* rasterization fails or the task is in error state; no report is written
\* and the task is still counted as completed.
C11_AbsentPlaceholderIsNoOp ==
  [][\A id \in 1..Len(tasks) :
       (DrainEnds(id) /\ getElementById(contentDiv, markup, id) = 0) =>
         /\ contentDiv' = contentDiv
         /\ reports' = reports
         /\ completedTasks' = completedTasks + 1]_vars

\* C11 witness: the rendering area was replaced by the pipeline error message
\* after tasks were registered; a pass then drained one task by its callback
\* and one in error state, counted both and left the area as it was.
C11_Witness ==
  /\ pc = "done"
  /\ contentDiv = [state |-> "error", el |-> <<>>]
  /\ completedTasks = totalTasks
  /\ \E a, b \in 1..Len(tasks) :
       /\ CopiesIn(a, callbackRuns) = 1
       /\ tasks[b].status = "error" /\ CopiesIn(b, removed) = 1

\* The extraction passes of renderMarkdown in the order they run.
passOf(type) == IF type = "html" THEN 1 ELSE IF type = "mermaid" THEN 2 ELSE 3

\* C12 as stated: tasks are registered in document order, across items of the
\* same kind and of different kinds: a task whose item comes earlier in the
\* document has the lower id and the earlier queue position.
C12_DocumentOrder ==
  \A a, b \in 1..Len(tasks) : tasks[a].pos < tasks[b].pos => a < b

\* C12 amended: registration goes pass by pass: every HTML block, then every
\* diagram, then every vector image; HTML blocks and diagrams are registered
\* in document order within their pass, vector images in reverse document
\* order.  Until the drain starts the queue holds the ids in that order.
C12_RegistrationOrder ==
  /\ \A a, b \in 1..Len(tasks) :
       a < b =>
         /\ passOf(tasks[a].type) <= passOf(tasks[b].type)
         /\ passOf(tasks[a].type) = passOf(tasks[b].type) =>
              IF tasks[a].type = "svg" THEN tasks[a].pos > tasks[b].pos
                                       ELSE tasks[a].pos < tasks[b].pos
  /\ pc = "idle" => asyncTaskQueue = [n \in 1..Len(tasks) |-> n]

\* C12 witness: two vector images have been registered, the later one in the
\* document first.
C12_Witness ==
  /\ renderPc = "inject"
  /\ \E a, b \in 1..Len(tasks) :
       /\ a < b
       /\ tasks[a].type = "svg" /\ tasks[b].type = "svg"
       /\ tasks[a].pos > tasks[b].pos
       /\ asyncTaskQueue = <<a, b>>

\* Items whose content has to be retrieved (remote or local image) before the
\* task can run; every other item has its content in hand at registration.
NeedsRetrieval(kind) == kind \in {"svgRemote", "svgLocal"}

\* No retrieval has settled and no drain has started: the registration-time state.
AtRegistration == renderPc \in {"html", "mermaid", "stringify", "inject"}

C14_UnrecognizedInlineIsError ==
  \A id \in 1..Len(tasks) :
    tasks[id].kind = "svgDataBad" =>
      /\ tasks[id].status = "error"
      /\ CopiesIn(id, callbackRuns) = 0

\* C14 amended: an inline encoded resource in an unrecognized format is
\* registered 'ready' with no content and no retrieval, and never becomes
\* error or fetching; when it is drained its callback is invoked, finds no
\* content, calls no rasterization backend and writes its own error block at
\* the placeholder; the scheduler's error report is never used for it.
C14_UnrecognizedInlineRunsCallback ==
  \A id \in 1..Len(tasks) :
    tasks[id].kind = "svgDataBad" =>
      /\ tasks[id].status = "ready"
      /\ tasks[id].svgContent = "null"
      /\ fetchSt[id] = "none"
      /\ CopiesIn(id, callbackRuns) = CopiesIn(id, removed)
      /\ CopiesIn(id, rendererCalls) = 0
      /\ CopiesIn(id, reports) = 0
      /\ (CopiesIn(id, removed) = 1 /\ pc # "callback" /\ contentDiv.state = "html") =>
           ElementOf(id) = "callbackError"

\* C14 witness: the callback of such a task has run and its placeholder shows
\* the callback's error block.
C14_Witness ==
  \E id \in 1..Len(tasks) :
    /\ tasks[id].kind = "svgDataBad"
    /\ CopiesIn(id, callbackRuns) = 1
    /\ pc # "callback"
    /\ contentDiv.state = "html"
    /\ ElementOf(id) = "callbackError"

\* The visitor has run on the node and registered a task for it.
Extracted == sanPc # "raw" /\ Len(tasks) > 0

\* C15: a raw-markup node is extracted (task registered, placeholder in the
\* tree) only if its trimmed content starts with a div, table or svg root tag
\* and is longer than 100 characters; every other raw node stays in the tree
\* and produces no task.
C15_OnlySignificantHtmlExtracted ==
  sanPc # "raw" =>
    /\ Extracted => isSignificantHtml(htmlValue)
    /\ ~isSignificantHtml(htmlValue) =>
         (markup = <<0>> /\ asyncTaskQueue = <<>> /\ tasks = <<>>)

\* C16: an empty HTML fragment and an inline-only fragment (line breaks,
\* inline tags such as span, a or img, white space between them) is skipped
\* entirely: no task is registered and no placeholder produced for it.
C16_EmptyAndInlineSkipped ==
  LET inlineOnly ==
        \A i \in 1..Len(htmlValue) :
          \/ htmlValue[i].tag \in {"#text", "#comment"}
          \/ /\ htmlValue[i].tag \in {"br", "span", "a", "img"}
             /\ \A k \in 1..Len(htmlValue[i].kids) : htmlValue[i].kids[k].tag = "#text"
  IN  (sanPc # "raw" /\ inlineOnly) =>
        (markup = <<0>> /\ asyncTaskQueue = <<>> /\ tasks = <<>>)

\* What a walk over childNodes sees of a fragment is clean: no comment, no
\* blocked element, no event-handler attribute, no href other than '#'.
RECURSIVE WalkClean(_)
WalkClean(html) ==
  \A i \in 1..Len(html) :
    /\ html[i].tag # "#comment"
    /\ html[i].tag \notin blockedTags
    /\ \A a \in html[i].attrs :
         /\ ~startsWithOn(a.name)
         /\ a.name \in {"href", "xlink:href"} => a.value = <<"#">>
    /\ html[i].tag # "template" => WalkClean(html[i].kids)

\* C17: the content stored in an HTML-block task is the sanitizer's output
\* for the trimmed node value, never the raw node content, and it is not
\* blank; a node whose sanitized content is empty once white space is removed
\* yields no task and no placeholder.
C17_TaskHoldsSanitizedHtml ==
  sanPc # "raw" =>
    /\ Extracted =>
         /\ Len(taskData) = 1 /\ markup = <<1>>
         /\ taskData[1] = sanitizeRenderedHtml(trimHtml(htmlValue), baseURI)
         /\ WalkClean(taskData[1])
         /\ ~isBlank(taskData[1])
    /\ isBlank(sanitizeRenderedHtml(trimHtml(htmlValue), baseURI)) =>
         (markup = <<0>> /\ tasks = <<>> /\ taskData = <<>>)

\* C17 witness: a task was registered for a node with an event-handler
\* attribute, and what it holds differs from the node value.
C17_Witness ==
  /\ Extracted
  /\ \E a \in htmlValue[1].attrs : startsWithOn(a.name)
  /\ taskData[1] # htmlValue

\* No blocked element and no event-handler attribute anywhere in the markup,
\* at any depth of the serialized fragment.
RECURSIVE DeepClean(_)
DeepClean(html) ==
  \A i \in 1..Len(html) :
    /\ html[i].tag \notin blockedTags
    /\ \A a \in html[i].attrs : ~startsWithOn(a.name)
    /\ DeepClean(html[i].kids)

\* C18: after sanitization the fragment contains no script, iframe, object,
\* embed, audio or video element at any depth, and no surviving element
\* carries an attribute whose name begins with 'on'; this holds of the markup
\* injected into the document and of the markup stored in an HTML-block task.
C18_NoActiveContentAfterSanitization ==
  /\ sanPc = "rendered" => DeepClean(rendered)
  /\ Extracted => DeepClean(taskData[1])

\* C19: the sanitizer rejects href="javascript:alert(1)" (the attribute is
\* removed or defused) and accepts href="https://example.com" unchanged.
C19_HrefJavascriptRejectedHttpsKept ==
  LET unsafe == Attr("href", <<"javascript:", "alert(1)">>)
      safe == Attr("href", <<"https:", "//example.com">>)
  IN  Extracted =>
        /\ htmlValue = <<Element("a", {unsafe}, <<>>)>> => unsafe \notin taskData[1][1].attrs
        /\ htmlValue = <<Element("a", {safe}, <<>>)>> => taskData[1][1].attrs = {safe}

\* The scheme a URL value has for the browser, a value without one taking the
\* scheme of the document.
SchemeOf(value, base) == IF trim(value) = <<>> THEN base ELSE protocol(trim(value), base)

IsDataOfType(value, type) == startsWith(toLowerCase(trim(value)), <<"data:", type>>)

\* The URL attributes other than href that hold a single URL.
OtherUrlAttributes == {"src", "action", "formaction", "poster", "data"}

\* The node studied is one element that the sanitizer let through into a task.
OneElementSanitized ==
  /\ Extracted
  /\ Len(htmlValue) = 1
  /\ htmlValue[1].tag \notin blockedTags \cup {"#text", "#comment"}

C22_InsertionsFollowedBySanitization == pc = "done" => insertedSince = 0

\* C22 amended: the sanitizer runs on every HTML block when it is extracted,
\* before its task is queued, and once on the whole markup at injection; it
\* never runs after injection, so no post-hoc insertion is followed by a pass.
C22_SanitizedAtExtractionAndInjection ==
  [][/\ sanitizerPasses' # sanitizerPasses =>
          /\ renderPc \in {"html", "inject"}
          /\ pc = "idle"
          /\ insertedSince = 0 /\ insertedSince' = 0
     /\ (renderPc = "html" /\ renderPc' # "html") =>
          sanitizerPasses' = sanitizerPasses + Len(tasks')
     /\ (renderPc = "inject" /\ renderPc' # "inject") =>
          sanitizerPasses' = sanitizerPasses + 1
     /\ insertedSince' >= insertedSince]_vars

\* C22 witness: an HTML block was sanitized at extraction, the markup at
\* injection, and the drain pass that replaced the block's placeholder has
\* ended without a further pass.
C22_Witness ==
  /\ pc = "done"
  /\ sanitizerPasses = 2
  /\ insertedSince = 1
  /\ \E id \in 1..Len(tasks) : tasks[id].type = "html" /\ ElementOf(id) = "image"

\* What a proxy method gives its caller when the storage layer fails.
FailureValue(op) ==
  CASE op = "get" -> {"null"}
    [] op \in {"set", "clear"} -> {"false"}
    [] op = "getStats" -> {"null"}
    [] op = "popupGetStats" -> {"defaultStats", "errorStats"}

C25_PipelineErrorReplacesArea ==
  [][/\ (renderPc # "done" /\ renderPc' = "done" /\ contentDiv' # contentDiv) =>
          contentDiv' = [state |-> "error", el |-> <<>>]
     /\ contentDiv.state = "error" => contentDiv' = contentDiv]_vars

\* C25 witness: the pipeline failed after two tasks had been registered and
\* the drain pass has called a rasterization backend for one of them.
C25_Witness ==
  /\ contentDiv.state = "error"
  /\ pc = "done"
  /\ Len(tasks) = 2
  /\ BagCardinality(removed) = 2
  /\ BagCardinality(rendererCalls) >= 1

\* C26 as stated: no task callback runs and no rasterization backend is
\* invoked before the rendered markup has been injected into the live view.
C26_NoCallbackBeforeMarkupInjected ==
  (callbackRuns # EmptyBag \/ rendererCalls # EmptyBag) => contentDiv.state = "html"

\* C26 amended: no drain pass starts, no task callback runs and no
\* rasterization backend is invoked before renderMarkdown has given the
\* rendering area its content: the rendered markup or, when the pipeline
\* failed, the error message; and the markup is injected while no retrieval
\* has settled and no rasterization has been requested.
C26_TextBeforeConversion ==
  [][/\ (pc' # "idle" \/ callbackRuns' # EmptyBag \/ rendererCalls' # EmptyBag) =>
          (renderPc' = "done" /\ contentDiv'.state \in {"html", "error"})
     /\ (contentDiv.state = "empty" /\ contentDiv'.state = "html") =>
          /\ pc = "idle"
          /\ rendererCalls = EmptyBag
          /\ \A id \in 1..Len(tasks) : fetchSt[id] \in {"none", "pending"}]_vars

\* C26 witness: the markup is in the live view, the first callback is running
\* and a retrieval started at registration has not settled yet.
C26_Witness ==
  /\ contentDiv.state = "html"
  /\ pc = "callback"
  /\ BagCardinality(callbackRuns) = 1
  /\ \E id \in 1..Len(tasks) : fetchSt[id] = "pending"

\* C27: once a print job has been received and rendered, the job is
\* eventually completed, the fallback timeout forcing completion even if the
\* images never settle and the print dialog never reports.
C27_FallbackCompletesJob == (rootContent = "job") ~> cleanedUp

\* C28: the zoom level, as the toolbar holds it and as it is applied to the
\* content, stays within 50%..400% after any sequence of zoom-in, zoom-out,
\* reset, layout switches with automatic zoom and restorations of the saved
\* zoom.
C28_ZoomWithinRange ==
  /\ zoomLevel \in MinZoom..MaxZoom
  /\ styleZoom \in MinZoom..MaxZoom

\* C28 witness: the zoom was driven to its ceiling in the wide layout, the
\* page was loaded again in a window too narrow for that layout, and the
\* saved layout and zoom have been restored.
C28_Witness ==
  /\ zoomPc = "ready"
  /\ currentLayout = "wide"
  /\ ~wideAvailable
  /\ savedZoom = MaxZoom
  /\ zoomLevel = MaxZoom
  /\ styleZoom = MaxZoom

\* The placeholders of the rendered markup that carry the given id.
PlaceholdersOf(id) == {p \in 1..Len(markup) : markup[p] = id}

\* C29: placeholder ids are pairwise distinct across the registrations of a
\* page, each registration produces exactly one placeholder, which carries
\* the id of its task, and no two tasks share a placeholder.
C29_PlaceholderIdsDistinct ==
  /\ \A i, j \in 1..Len(tasks) : tasks[i].id = tasks[j].id => i = j
  /\ \A i \in 1..Len(tasks) : PlaceholdersOf(tasks[i].id) = {tasks[i].pos}
  /\ \A p \in 1..Len(markup) :
       markup[p] # 0 => Cardinality({i \in 1..Len(tasks) : tasks[i].id = markup[p]}) = 1

\* C29 witness: two tasks have been registered by different extraction
\* steps and the markup holds their two placeholders.
C29_Witness ==
  /\ Len(tasks) = 2
  /\ tasks[1].type # tasks[2].type
  /\ Cardinality({p \in 1..Len(markup) : markup[p] # 0}) = 2

\* C30: for every task created fetching, the status becomes 'ready' only
\* with the retrieved content stored in the task's data, a retrieval failure
\* (recorded in the task's error) sets the status to 'error', and a task in
\* error never becomes ready.
C30_ReadyOnlyWithContent ==
  [][\A id \in 1..Len(tasks) : NeedsRetrieval(tasks[id].kind) =>
       /\ tasks'[id].status = "ready" => tasks'[id].svgContent = "content"
       /\ (fetchSt[id] # "settled" /\ fetchSt'[id] = "settled") =>
            \/ tasks'[id].status = "ready" /\ tasks'[id].error = "null"
            \/ tasks'[id].status = "error" /\ tasks'[id].error = "fetchError"
                                           /\ tasks'[id].svgContent = "null"
       /\ tasks[id].status = "error" => tasks'[id].status = "error"]_vars

\* C30 witness: of two tasks created fetching, one retrieval has delivered
\* its content and the other has failed.
C30_Witness ==
  /\ Len(tasks) = 2
  /\ \A id \in 1..2 : NeedsRetrieval(tasks[id].kind) /\ fetchSt[id] = "settled"
  /\ \E id \in 1..2 : tasks[id].status = "ready" /\ tasks[id].svgContent = "content"
  /\ \E id \in 1..2 : tasks[id].status = "error" /\ tasks[id].error = "fetchError"

\* The tasks taken out of the queue whose processing has not been counted yet.
Unsettled == BagCardinality(removed) - completedTasks

\* C31: at most one task callback is in flight at any moment, and a task is
\* taken out of the queue only when no callback is in flight.
C31_OneCallbackAtATime ==
  [][/\ BagCardinality(removed') - completedTasks' <= 1
     /\ (BagCardinality(removed') - completedTasks' = 1) <=> (pc' = "callback")
     /\ removed' # removed => (Unsettled = 0 /\ pc = "loop")]_vars

\* C31 witness: a callback is in flight while another task, ready to be
\* processed, stays in the queue.
C31_Witness ==
  /\ pc = "callback"
  /\ Unsettled = 1
  /\ SomeQueuedDrainable

\* The reason finishPrint is given after each error message.
ReasonOf(message) ==
  CASE message = "Missing print root element" -> "missing-root"
    [] message = "Failed to load print job" -> "job-error"
    [] message = "Failed to retrieve print data" -> "chunk-error"
    [] OTHER -> "request-error"

\* C32: PRINT_JOB_COMPLETE is sent at most once per page, nothing is sent
\* once the job is cleaned up, and the message carries the reason of the
\* event that completed the job: afterprint when the dialog was dismissed,
\* the error's reason after an error, beforeunload when the page went away,
\* otherwise escape, or timeout when the fallback timer was pending.
C32_CompleteSentOnce ==
  [][/\ Len(completeMsgs') <= 1
     /\ cleanedUp => completeMsgs' = completeMsgs
     /\ (~cleanedUp /\ cleanedUp' /\ token # "null") =>
          /\ Len(completeMsgs') = 1
          /\ IF dialog' # dialog THEN completeMsgs'[1] = "afterprint"
             ELSE IF errorMessage' # errorMessage
               THEN completeMsgs'[1] = ReasonOf(errorMessage')
             ELSE IF windowClosed' THEN completeMsgs'[1] = "beforeunload"
             ELSE \/ completeMsgs'[1] = "escape"
                  \/ completeMsgs'[1] = "timeout" /\ fallbackTimer = "pending"]_vars

\* C32 witness: Escape completed the job while the print dialog was open;
\* the dialog was dismissed afterwards and the page has gone, and the one
\* message sent carries the reason escape.
C32_Witness ==
  /\ completeMsgs = <<"escape">>
  /\ dialog = "closed"
  /\ windowClosed

\* C33: once the job is cleaned up the page takes no further print action:
\* window.print is not invoked and no fallback timer is armed or left pending.
C33_NoPrintActionAfterCompletion ==
  [][cleanedUp => (printCalls' = printCalls /\ fallbackTimer' # "pending")]_vars

\* C34: every iteration of the chunk loop strictly increases the offset, so
\* the offsets requested are strictly increasing (none is requested twice),
\* each lies below the total length, and the loop ends after at most as
\* many requests as the total length.
C34_ChunkLoopAdvances ==
  [][/\ chunks' # chunks =>
          /\ offset' > offset
          /\ printPc' = "chunkFetch" =>
               /\ offset' < totalLength
               /\ chunkRequests' = Append(chunkRequests, offset')
               /\ \A i \in 1..Len(chunkRequests) : chunkRequests[i] < offset'
          /\ printPc' # "chunkFetch" => (offset' >= totalLength /\ chunkRequests' = chunkRequests)
     /\ Len(chunkRequests') <= totalLength']_vars

\* C34 witness: the loop has ended after two chunks, requested at two
\* different offsets, and the job has been rendered.
C34_Witness ==
  /\ chunks = 2
  /\ Len(chunkRequests) = 2
  /\ chunkRequests[1] < chunkRequests[2]
  /\ rootContent = "job"

\* C35 as stated: whenever an error is shown on a page with a token, the job
\* is completed with the reason of that error.
C35_ErrorCompletesWithItsReason ==
  (errorMessage # "" /\ token # "null") => completeMsgs = <<ReasonOf(errorMessage)>>

\* C35 amended: a job is rendered only after the job request and every
\* chunk fetch have succeeded; when the token is missing, the request or a
\* chunk fetch fails, or the root element is missing, an error is shown and
\* nothing is rendered or printed; and on a page with a token the error
\* completes the job with its own reason unless an earlier event (Escape,
\* the page going away) had completed it, whose message then stays the
\* only one.
C35_RendersOnlyAfterSuccess ==
  [][/\ rootContent' = "job" =>
          (errorMessage' = "" /\ token # "null" /\ hasRoot /\ offset' >= totalLength')
     /\ errorMessage' # "" =>
          /\ rootContent' = "empty"
          /\ printCalls' = 0
          /\ ~printTimer'
          /\ fallbackTimer' # "pending"
          /\ printPc' = "returned"
     /\ (errorMessage' # errorMessage /\ token = "null") =>
          (errorMessage' = "Missing print job token" /\ completeMsgs' = <<>>)
     /\ (errorMessage' # errorMessage /\ token # "null") =>
          /\ cleanedUp'
          /\ completeMsgs' = IF cleanedUp THEN completeMsgs
                                          ELSE <<ReasonOf(errorMessage')>>]_vars

\* C35 witness: the first chunk arrived, the fetch of the second failed:
\* the error is shown, nothing is rendered, the reason is chunk-error.
C35_Witness ==
  /\ chunks = 1
  /\ Len(chunkRequests) = 2
  /\ errorMessage = "Failed to retrieve print data"
  /\ rootContent = "empty"
  /\ completeMsgs = <<"chunk-error">>

\* C36: any number of init calls, sequential or overlapping, read the stored
\* settings at most once and load the preferred locale at most once, and
\* every call returns the same loading promise.
C36_InitSingleFlight ==
  /\ storageReads <= 1
  /\ Cardinality({i \in 1..Len(loads) : loads[i].by = "init"}) <= 1
  /\ \A i, j \in 1..Len(initReturns) : initReturns[i] = initReturns[j]
  /\ \A i \in 1..Len(initReturns) : initReturns[i] = loadingPromise

\* C36 witness: init was called a second time while the first call was
\* loading the preferred locale, and the load has then succeeded.
C36_Witness ==
  /\ Len(initReturns) >= 2
  /\ initPc = "done"
  /\ storageReads = 1
  /\ \E i \in 1..Len(loads) : loads[i].by = "init" /\ messages = loads[i].locale

\* No Localization operation is in progress.
Quiescent ==
  /\ initPc \in {"idle", "done"}
  /\ \A i \in 1..Len(loads) : loads[i].pc = "done"

\* C37: whenever no Localization operation is in progress, ready is true
\* exactly when messages are loaded.
C37_ReadyIffMessages == Quiescent => (ready <=> messages # "null")

\* C37 witness: after a failed load and a successful one, both over, the
\* messages are loaded and ready is true.
C37_Witness ==
  /\ Quiescent
  /\ Len(loads) = 2
  /\ messages # "null"
  /\ ready
  /\ locale # messages

\* C38: after any sequence of saveToHistory calls the stored history has at
\* most 100 entries and at most one entry per document url, and right after
\* a successful save the first entry is the document just saved.
C38_HistoryBoundedUniqueNewestFirst ==
  [][/\ Len(markdownHistory') <= HistoryLimit
     /\ NoDuplicates(markdownHistory')
     /\ \A i \in 1..Len(saves) :
          (saves[i].pc = "set" /\ saves'[i].pc = "done")
            => (markdownHistory' # <<>> /\ markdownHistory'[1] = saves[i].url)]_vars

\* The original history held HistoryLimit entries and the document at its
\* end was saved again, then a new document: the stored history is full,
\* starts with the new document and then the re-saved one.
C38_Witness ==
  /\ Len(saves) = 2
  /\ saves[1].pc = "done" /\ saves[1].url = HistoryLimit
  /\ saves[2].pc = "done" /\ saves[2].url = HistoryLimit + 1
  /\ Len(markdownHistory) = HistoryLimit
  /\ markdownHistory[1] = HistoryLimit + 1
  /\ markdownHistory[2] = HistoryLimit

\* C39: at most one DOCX export is in flight at any time, the button is
\* disabled exactly while one is, and so it is enabled again once the
\* export has finished, with or without success.
C39_OneExportAndButtonRestored ==
  /\ exportsInFlight <= 1
  /\ downloadDisabled <=> (exportsInFlight = 1)
  /\ Cardinality({i \in 1..Len(exportLog) : exportLog[i].outcome = "pending"}) = exportsInFlight

\* C39 witness: an export failed, the button was enabled again and a second
\* export, started with the shortcut, is in flight.
C39_Witness ==
  /\ Len(exportLog) = 2
  /\ exportLog[1].outcome \in {"failure", "reject"}
  /\ exportLog[2].by = "ctrl-s"
  /\ exportLog[2].outcome = "pending"
  /\ downloadDisabled
  /\ exportProgress > 0

====
